---- MODULE Spec2Model ----
(***************************************************************************)
(* JoyScope: the gamepad polling pipeline (useGamepads, the controller     *)
(* store, the gamepad service, normalization and the virtual gamepad), the *)
(* haptics operations, the preferences store and the dead-zone filter.     *)
(*                                                                         *)
(* Strings that the code inspects character by character (device ids, the  *)
(* vendor keywords) are sequences of one-character strings.  Analog raw    *)
(* values are integers in units of 1/10000; values after toFixed(3) are    *)
(* integers in units of 1/1000.  Times are milliseconds.                   *)
(***************************************************************************)
EXTENDS Integers, Sequences, FiniteSets, TLC

VARIABLES
    controllers,      \* useControllerStore.controllers: slot -> NormalizedGamepad
    activeSlot,       \* useControllerStore.activeSlot (Undefined or a slot)
    lastUpdate,       \* useControllerStore.lastUpdate (Undefined or a time)
    simulationMode,   \* usePreferencesStore.simulationMode
    apiSupported,     \* whether navigator has getGamepads
    pads,             \* navigator.getGamepads(): slot -> raw Gamepad (absent slot = null)
    mounted,          \* whether the component calling useGamepads is mounted
    pollLoops,        \* loop -> [isActive, simulationMode] of that polling effect's closure
    scheduled,        \* frame callbacks requested and neither run nor cancelled
    rafCount,         \* the last handle requestAnimationFrame returned
    rafIdRef,         \* rafIdRef.current
    lastPollTimeRef,  \* lastPollTimeRef.current
    hasControllersRef,\* hasControllersRef.current
    listening,        \* whether the gamepadconnected/-disconnected listeners are registered
    now,              \* the frame clock (performance.now())
    envSteps,         \* changes of the platform's gamepads so far
    last,             \* the operation that ran last (history, for stating the claims)
    call,             \* pure-function specifications: the call under check
    result            \* pure-function specifications: what the call returned

vars == <<controllers, activeSlot, lastUpdate, simulationMode, apiSupported, pads,
          mounted, pollLoops, scheduled, rafCount, rafIdRef, lastPollTimeRef,
          hasControllersRef, listening, now, envSteps, last, call, result>>

pollerVars == <<controllers, activeSlot, lastUpdate, simulationMode, apiSupported, pads,
                mounted, pollLoops, scheduled, rafCount, rafIdRef, lastPollTimeRef,
                hasControllersRef, listening, now, envSteps, last>>

Undefined == "undefined"

(***************************************************************************)
(* Bounds of the model.                                                    *)
(***************************************************************************)
MaxSlot == 1          \* slots 0..MaxSlot
MaxRaf == 3           \* requestAnimationFrame calls in one behaviour
MaxEnv == 2           \* changes of the platform's gamepads in one behaviour
MaxParts == 2         \* tokens concatenated into a test identifier
MaxButtons == 18      \* buttons of a test snapshot
MaxAxes == 5          \* axes of a test snapshot

Slots == 0..MaxSlot

(***************************************************************************)
(* Strings as character sequences; String.prototype.toLowerCase/includes.  *)
(***************************************************************************)
UpperCase == <<"A","B","C","D","E","F","G","H","I","J","K","L","M","N","O","P","Q","R","S","T","U","V","W","X","Y","Z">>
LowerCase == <<"a","b","c","d","e","f","g","h","i","j","k","l","m","n","o","p","q","r","s","t","u","v","w","x","y","z">>

toLowerChar(c) ==
    IF \E i \in DOMAIN UpperCase : UpperCase[i] = c
    THEN LowerCase[CHOOSE i \in DOMAIN UpperCase : UpperCase[i] = c]
    ELSE c

toUpperChar(c) ==
    IF \E i \in DOMAIN LowerCase : LowerCase[i] = c
    THEN UpperCase[CHOOSE i \in DOMAIN LowerCase : LowerCase[i] = c]
    ELSE c

toLowerCase(s) == [i \in 1..Len(s) |-> toLowerChar(s[i])]

includes(s, k) ==
    \E i \in 1..(Len(s) - Len(k) + 1) : SubSeq(s, i, i + Len(k) - 1) = k

(***************************************************************************)
(* gamepadService.detectVendor                                             *)
(***************************************************************************)
kwXbox == <<"x","b","o","x">>
kwMicrosoft == <<"m","i","c","r","o","s","o","f","t">>
kwXinput == <<"x","i","n","p","u","t">>
kwDualshock == <<"d","u","a","l","s","h","o","c","k">>
kwPlaystation == <<"p","l","a","y","s","t","a","t","i","o","n">>
kwWirelessController == <<"w","i","r","e","l","e","s","s"," ","c","o","n","t","r","o","l","l","e","r">>
kwDualsense == <<"d","u","a","l","s","e","n","s","e">>
kwNintendo == <<"n","i","n","t","e","n","d","o">>
kwSwitch == <<"s","w","i","t","c","h">>
kwProController == <<"p","r","o"," ","c","o","n","t","r","o","l","l","e","r">>

detectVendor_dualshockFirst(gamepadId) ==
    LET id == toLowerCase(gamepadId) IN
    IF includes(id, kwDualshock) \/ includes(id, kwPlaystation)
         \/ includes(id, kwWirelessController) \/ includes(id, kwDualsense)
    THEN "dualshock"
    ELSE IF includes(id, kwXbox) \/ includes(id, kwMicrosoft) \/ includes(id, kwXinput)
    THEN "xbox"
    ELSE IF includes(id, kwNintendo) \/ includes(id, kwSwitch) \/ includes(id, kwProController)
    THEN "switch"
    ELSE "generic"

detectVendor_caseSensitive(gamepadId) ==
    LET id == gamepadId IN
    IF includes(id, kwXbox) \/ includes(id, kwMicrosoft) \/ includes(id, kwXinput)
    THEN "xbox"
    ELSE IF includes(id, kwDualshock) \/ includes(id, kwPlaystation)
         \/ includes(id, kwWirelessController) \/ includes(id, kwDualsense)
    THEN "dualshock"
    ELSE IF includes(id, kwNintendo) \/ includes(id, kwSwitch) \/ includes(id, kwProController)
    THEN "switch"
    ELSE "generic"

detectVendor(gamepadId) ==
    LET id == toLowerCase(gamepadId) IN
    IF includes(id, kwXbox) \/ includes(id, kwMicrosoft) \/ includes(id, kwXinput)
    THEN "xbox"
    ELSE IF includes(id, kwDualshock) \/ includes(id, kwPlaystation)
         \/ includes(id, kwWirelessController) \/ includes(id, kwDualsense)
    THEN "dualshock"
    ELSE IF includes(id, kwNintendo) \/ includes(id, kwSwitch) \/ includes(id, kwProController)
    THEN "switch"
    ELSE "generic"

ControllerVendor == {"xbox", "dualshock", "switch", "generic"}

(***************************************************************************)
(* buttonConstants.BUTTON_LABELS, gamepadMapping.axisLabels and            *)
(* getLabelsForVendor.  A table is the sequence of its entries: index i    *)
(* is entry i + 1.                                                         *)
(***************************************************************************)
BUTTON_LABELS ==
    [xbox |-> <<"A", "B", "X", "Y", "LB", "RB", "LT", "RT", "View", "Menu", "LS", "RS",
                "D-Up", "D-Down", "D-Left", "D-Right", "Xbox">>,
     dualshock |-> <<"Cross", "Circle", "Square", "Triangle", "L1", "R1", "L2", "R2",
                     "Share", "Options", "L3", "R3",
                     "D-Up", "D-Down", "D-Left", "D-Right", "PS">>,
     switch |-> <<"B", "A", "Y", "X", "L", "R", "ZL", "ZR", "Minus", "Plus",
                  "LStick", "RStick",
                  "D-Up", "D-Down", "D-Left", "D-Right", "Home">>,
     generic |-> <<"Button 1", "Button 2", "Button 3", "Button 4", "Button 5", "Button 6",
                   "Button 7", "Button 8", "Button 9", "Button 10", "Button 11",
                   "Button 12", "Button 13", "Button 14", "Button 15", "Button 16",
                   "Button 17">>]

axisLabels == <<"LX", "LY", "RX", "RY">>

getLabelsForVendor(vendor) ==
    IF vendor \in DOMAIN BUTTON_LABELS THEN BUTTON_LABELS[vendor] ELSE BUTTON_LABELS.generic

\* labels[index] ?? `Button ${index + 1}`
buttonLabel_offByOne(labels, index) ==
    IF index + 1 \in DOMAIN labels THEN labels[index + 1]
    ELSE "Button " \o ToString(index)

buttonLabel(labels, index) ==
    IF index + 1 \in DOMAIN labels THEN labels[index + 1]
    ELSE "Button " \o ToString(index + 1)

\* axisLabels[index] ?? `Axis ${index + 1}`
axisLabel(index) ==
    IF index + 1 \in DOMAIN axisLabels THEN axisLabels[index + 1]
    ELSE "Axis " \o ToString(index + 1)

(***************************************************************************)
(* Number(x.toFixed(3)) for x in units of 1/10000: the nearest multiple of *)
(* 1/1000 (a tie rounds away from zero), in units of 1/1000.               *)
(***************************************************************************)
toFixed3_truncating(x) ==
    LET a == IF x < 0 THEN 0 - x ELSE x
        n == a \div 10
    IN IF x < 0 THEN 0 - n ELSE n

toFixed3(x) ==
    LET a == IF x < 0 THEN 0 - x ELSE x
        n == (a + 5) \div 10
    IN IF x < 0 THEN 0 - n ELSE n

(***************************************************************************)
(* gamepadMapping.normalizeGamepad.  A raw Gamepad is a record             *)
(*   [id, index, mapping, connected, timestamp, buttons, axes,             *)
(*    vibrationActuator]                                                   *)
(* whose vibrationActuator is [present, type] (present = FALSE: null or    *)
(* undefined).                                                             *)
(***************************************************************************)
NoActuator == [present |-> FALSE, type |-> Undefined]
DualRumble == [present |-> TRUE, type |-> "dual-rumble"]

normalizeGamepad(gamepad) ==
    LET vendor == detectVendor(gamepad.id)
        labels == getLabelsForVendor(vendor)
        actuator == gamepad.vibrationActuator
        actuatorType == IF actuator.present /\ actuator.type # Undefined
                        THEN actuator.type ELSE Undefined
        hasRumble == actuator.present
    IN [id |-> gamepad.id,
        slot |-> gamepad.index,
        mapping |-> gamepad.mapping,
        vendor |-> vendor,
        timestamp |-> gamepad.timestamp,
        connected |-> gamepad.connected,
        buttons |-> [i \in 1..Len(gamepad.buttons) |->
                        [index |-> i - 1,
                         label |-> buttonLabel(labels, i - 1),
                         pressed |-> gamepad.buttons[i].pressed,
                         value |-> toFixed3(gamepad.buttons[i].value)]],
        axes |-> [i \in 1..Len(gamepad.axes) |->
                        [index |-> i - 1,
                         label |-> axisLabel(i - 1),
                         value |-> toFixed3(gamepad.axes[i])]],
        haptics |-> [hasRumble |-> hasRumble, actuatorType |-> actuatorType]]

(***************************************************************************)
(* Optional values (T | undefined) are sets with at most one element.      *)
(***************************************************************************)
None == {}
Some(v) == {v}
ValueOf(o) == CHOOSE v \in o : TRUE

RECURSIVE ascending(_)
ascending(S) ==
    IF S = {} THEN <<>>
    ELSE LET m == CHOOSE x \in S : \A y \in S : x <= y
         IN <<m>> \o ascending(S \ {m})

Put(f, k, v) == [x \in DOMAIN f \cup {k} |-> IF x = k THEN v ELSE f[x]]

(***************************************************************************)
(* virtualGamepad.getVirtualGamepad.  SineAxes[t] is                       *)
(*   <<lx, ly, rx, ry>> = Number((sine(t, offset) * amplitude).toFixed(3)) *)
(* in units of 1/1000 at the instants t the frame clock of this model can  *)
(* reach.  rnd is the sequence of the five Math.random() results the call  *)
(* draws (button 0 pressed, then the values of buttons 0..3), in units of  *)
(* 1/10000.                                                                *)
(***************************************************************************)
SineAxes ==
    0 :> <<0, 505, 364, 56>> @@
    16 :> <<19, 515, 358, 44>> @@
    32 :> <<38, 525, 352, 31>> @@
    48 :> <<58, 534, 346, 18>> @@
    64 :> <<77, 542, 339, 5>> @@
    80 :> <<96, 550, 333, -7>> @@
    96 :> <<114, 557, 325, -20>> @@
    112 :> <<133, 564, 318, -33>> @@
    128 :> <<152, 571, 310, -46>> @@
    144 :> <<170, 576, 301, -58>> @@
    160 :> <<189, 581, 293, -71>> @@
    500 :> <<505, 546, 56, -303>> @@
    1000 :> <<546, 85, -303, -384>> @@
    1016 :> <<537, 66, -311, -380>> @@
    1032 :> <<528, 47, -319, -376>> @@
    1048 :> <<519, 27, -326, -371>> @@
    1064 :> <<509, 8, -334, -366>> @@
    1080 :> <<499, -11, -341, -361>> @@
    1096 :> <<488, -30, -347, -355>> @@
    1112 :> <<476, -49, -353, -349>> @@
    1128 :> <<465, -68, -359, -342>> @@
    1144 :> <<452, -88, -365, -336>> @@
    2000 :> <<-454, -575, -112, 263>> @@
    2016 :> <<-466, -570, -99, 272>> @@
    2032 :> <<-478, -563, -87, 282>> @@
    2048 :> <<-490, -556, -74, 290>> @@
    2064 :> <<-500, -549, -62, 299>> @@
    2080 :> <<-511, -541, -49, 307>> @@
    2096 :> <<-521, -532, -36, 316>> @@
    2112 :> <<-530, -523, -24, 323>> @@
    2128 :> <<-539, -514, -11, 331>> @@
    3000 :> <<-168, 394, 396, 165>> @@
    3016 :> <<-149, 408, 394, 153>> @@
    3032 :> <<-130, 422, 391, 141>> @@
    3048 :> <<-112, 436, 388, 129>> @@
    3064 :> <<-93, 449, 385, 117>> @@
    3080 :> <<-74, 461, 381, 105>> @@
    3096 :> <<-55, 473, 377, 92>> @@
    3112 :> <<-35, 485, 373, 80>> @@
    4000 :> <<594, 247, -218, -400>> @@
    4016 :> <<591, 230, -228, -400>> @@
    4032 :> <<587, 212, -239, -399>> @@
    4048 :> <<583, 194, -249, -398>> @@
    4064 :> <<578, 175, -259, -396>> @@
    4080 :> <<572, 157, -268, -395>> @@
    4096 :> <<566, 138, -278, -392>> @@
    5000 :> <<-326, -600, -215, 168>> @@
    5016 :> <<-342, -600, -204, 180>> @@
    5032 :> <<-358, -599, -193, 191>> @@
    5048 :> <<-373, -597, -181, 202>> @@
    5064 :> <<-388, -595, -170, 213>> @@
    5080 :> <<-402, -592, -158, 224>> @@
    6000 :> <<-322, 252, 396, 260>> @@
    6016 :> <<-306, 269, 398, 250>> @@
    6032 :> <<-289, 286, 399, 240>> @@
    6048 :> <<-272, 303, 400, 230>> @@
    6064 :> <<-255, 320, 400, 219>> @@
    7000 :> <<594, 390, -115, -385>> @@
    7016 :> <<597, 375, -127, -388>> @@
    7032 :> <<598, 360, -139, -391>> @@
    7048 :> <<599, 345, -151, -393>> @@
    8000 :> <<-173, -577, -300, 60>> @@
    8016 :> <<-191, -582, -292, 73>> @@
    8032 :> <<-209, -586, -283, 85>> @@
    9000 :> <<-451, 90, 365, 335>> @@
    9016 :> <<-438, 109, 370, 327>> @@
    10000 :> <<548, 502, -4, -338>>

VirtualId == <<"V","i","r","t","u","a","l"," ","X","b","o","x"," ","W","i","r","e","l","e","s","s">>
virtualLabels == <<"A", "B", "X", "Y">>

\* Number((r * 0.2).toFixed(2)), in units of 1/1000
randomValue(r) == 10 * ((r + 250) \div 500)

getVirtualGamepad(time, rnd) ==
    [id |-> VirtualId,
     slot |-> 0,
     mapping |-> "standard",
     vendor |-> "xbox",
     timestamp |-> time,
     connected |-> TRUE,
     buttons |-> [i \in 1..16 |->
                    [index |-> i - 1,
                     label |-> IF i \in DOMAIN virtualLabels THEN virtualLabels[i]
                               ELSE "Button " \o ToString(i),
                     pressed |-> IF i - 1 = 0 THEN rnd[1] > 8000 ELSE FALSE,
                     value |-> IF i - 1 < 4 THEN randomValue(rnd[i + 1]) ELSE 0]],
     axes |-> [i \in 1..4 |->
                    [index |-> i - 1, label |-> axisLabels[i], value |-> SineAxes[time][i]]],
     haptics |-> [hasRumble |-> TRUE, actuatorType |-> "dual-rumble"]]

RandomDraws == {<<0, 0, 0, 0, 0>>, <<9000, 5000, 2500, 9999, 1234>>}

(***************************************************************************)
(* controllerSlice: the store's state is [controllers, activeSlot,         *)
(* lastUpdate]; each operation returns the state it sets.                  *)
(***************************************************************************)
StoreState == [controllers |-> controllers, activeSlot |-> activeSlot,
               lastUpdate |-> lastUpdate]

\* a patch that keeps the vendor a slot's entry already has
RECURSIVE patchEach_vendorKept(_, _)
patchEach_vendorKept(next, list) ==
    IF list = <<>> THEN next
    ELSE LET c == Head(list)
             kept == IF c.slot \in DOMAIN next
                     THEN [c EXCEPT !.vendor = next[c.slot].vendor] ELSE c
         IN patchEach_vendorKept(Put(next, c.slot, kept), Tail(list))

\* a patch in which the first state given for a slot wins
RECURSIVE patchEach_firstWins(_, _)
patchEach_firstWins(next, list) ==
    IF list = <<>> THEN next
    ELSE Put(patchEach_firstWins(next, Tail(list)), Head(list).slot, Head(list))

RECURSIVE patchEach(_, _)
patchEach(next, list) ==
    IF list = <<>> THEN next
    ELSE patchEach(Put(next, Head(list).slot, Head(list)), Tail(list))

\* a patch that makes the first slot of its list the active slot
patchControllers_activeSlotReset(state, list, time) ==
    [controllers |-> patchEach(state.controllers, list),
     activeSlot |-> IF list # <<>> THEN Some(list[1].slot) ELSE state.activeSlot,
     lastUpdate |-> Some(time)]

patchControllers(state, list, time) ==
    [controllers |-> patchEach(state.controllers, list),
     activeSlot |-> IF state.activeSlot # None THEN state.activeSlot
                    ELSE IF list # <<>> THEN Some(list[1].slot) ELSE None,
     lastUpdate |-> Some(time)]

RECURSIVE keepConnected(_, _)
keepConnected(next, values) ==
    IF values = <<>> THEN next
    ELSE keepConnected(IF Head(values).connected
                       THEN Put(next, Head(values).slot, Head(values)) ELSE next,
                       Tail(values))

ObjectValues(obj) == [i \in 1..Cardinality(DOMAIN obj) |-> obj[ascending(DOMAIN obj)[i]]]

pruneDisconnected_keepsActiveSlot(state) ==
    [controllers |-> keepConnected(<<>>, ObjectValues(state.controllers)),
     activeSlot |-> state.activeSlot,
     lastUpdate |-> state.lastUpdate]

pruneDisconnected(state) ==
    LET next == keepConnected(<<>>, ObjectValues(state.controllers))
        slots == ascending(DOMAIN next)
    IN [controllers |-> next,
        activeSlot |-> IF state.activeSlot # None /\ ValueOf(state.activeSlot) \in DOMAIN next
                       THEN state.activeSlot
                       ELSE IF slots # <<>> THEN Some(slots[1]) ELSE None,
        lastUpdate |-> state.lastUpdate]

(***************************************************************************)
(* gamepadService: feature detection and gamepad access.                   *)
(***************************************************************************)
isGamepadApiSupported == apiSupported

\* a query that reports no gamepad at all
getGamepads_nothing(throws) == <<>>

\* throws: whether navigator.getGamepads() raises in this call
getGamepads(throws) ==
    IF ~isGamepadApiSupported THEN <<>>
    ELSE IF throws THEN <<>>
    ELSE ObjectValues(pads)

(***************************************************************************)
(* The raw snapshots the platform can report.                              *)
(***************************************************************************)
XboxId == <<"X","b","o","x"," ","W","i","r","e","l","e","s","s"," ","C","o","n","t","r","o","l","l","e","r">>
UnknownId == <<"T","o","t","a","l","l","y"," ","U","n","k","n","o","w","n"," ","P","a","d">>

Devices ==
    {[id |-> XboxId, mapping |-> "standard", timestamp |-> 123,
      buttons |-> <<[pressed |-> TRUE, value |-> 10000], [pressed |-> FALSE, value |-> 1234]>>,
      axes |-> <<-5004, 10000>>, vibrationActuator |-> DualRumble],
     [id |-> UnknownId, mapping |-> "", timestamp |-> 0,
      buttons |-> <<[pressed |-> FALSE, value |-> 0]>>,
      axes |-> <<>>, vibrationActuator |-> NoActuator]}

Gamepad(d, s, c) ==
    [id |-> d.id, index |-> s, mapping |-> d.mapping, connected |-> c,
     timestamp |-> d.timestamp, buttons |-> d.buttons, axes |-> d.axes,
     vibrationActuator |-> d.vibrationActuator]

Snapshots(s) == {Gamepad(d, s, c) : d \in Devices, c \in BOOLEAN}

\* normalizeGamepad is pure: its values on the snapshots of this model
Normalized == [g \in UNION {Snapshots(s) : s \in Slots} |-> normalizeGamepad(g)]

ConnectedSlots == {s \in DOMAIN pads : pads[s].connected}

(***************************************************************************)
(* hooks/useGamepads.  A polling effect's closure is a loop: the record    *)
(* [isActive, simulationMode] of the values its tick reads, named by the   *)
(* handle of its first frame request.  A frame callback is [id, loop].  A  *)
(* closure is kept while its effect is live or a callback refers to it.    *)
(***************************************************************************)
IDLE_POLL_INTERVAL_MS == 1000

FrameDeltas == {16, 1000}

HookState == [pollLoops |-> pollLoops, scheduled |-> scheduled,
              rafIdRef |-> rafIdRef, rafCount |-> rafCount]

collect(loops, callbacks) ==
    [l \in {x \in DOMAIN loops : loops[x].isActive \/ \E cb \in callbacks : cb.loop = x}
        |-> loops[l]]

\* rafIdRef.current = requestAnimationFrame(tick), for the tick of `loop`
requestAnimationFrame(h, loop) ==
    [h EXCEPT !.scheduled = @ \cup {[id |-> h.rafCount + 1, loop |-> loop]},
              !.rafCount = @ + 1,
              !.rafIdRef = Some(h.rafCount + 1)]

cancelAnimationFrame_forgotten(callbacks, id) == callbacks

cancelAnimationFrame(callbacks, id) == {cb \in callbacks : cb.id # id}

\* the polling effect's body: let isActive = true; ...; request the first frame
startPolling(h, sim) ==
    LET loop == h.rafCount + 1
        h1 == [h EXCEPT !.pollLoops = Put(@, loop, [isActive |-> TRUE,
                                                     simulationMode |-> sim])]
    IN requestAnimationFrame(h1, loop)

\* the polling effect's cleanup, for the effect whose closure is `loop`
stopPolling(h, loop) ==
    LET callbacks == IF h.rafIdRef # None
                     THEN cancelAnimationFrame(h.scheduled, ValueOf(h.rafIdRef))
                     ELSE h.scheduled
    IN [h EXCEPT !.pollLoops = collect([@ EXCEPT ![loop].isActive = FALSE], callbacks),
                 !.scheduled = callbacks]

\* the closure of the polling effect that is live (mounted and not cleaned up)
liveLoop == CHOOSE l \in DOMAIN pollLoops : pollLoops[l].isActive

\* the effect on [controllers] never marking the registry as non-empty
hasControllersEffect_unset(ctrls) == FALSE

\* the effect on [controllers]: hasControllersRef.current = keys(controllers).length > 0
hasControllersEffect(ctrls) == Cardinality(DOMAIN ctrls) > 0

\* the listener effect's guard: it subscribes unless it returns early
subscribes(sim) == isGamepadApiSupported /\ ~sim

\* tick's idle check: true when the tick returns without sampling
idleSkip_inclusive(hasControllers, sim, timeSinceLastPoll) ==
    ~hasControllers /\ ~sim /\ timeSinceLastPoll <= IDLE_POLL_INTERVAL_MS

idleSkip(hasControllers, sim, timeSinceLastPoll) ==
    ~hasControllers /\ ~sim /\ timeSinceLastPoll < IDLE_POLL_INTERVAL_MS

\* tick's choice of source: the virtual gamepad instead of the platform's
usesVirtualGamepad_simOnly(sim) == sim

usesVirtualGamepad(sim) == sim \/ ~isGamepadApiSupported

handleConnect_ignored(state, gamepad, time) == state

handleConnect(state, gamepad, time) ==
    patchControllers(state, <<Normalized[gamepad]>>, time)

handleDisconnect(state) == pruneDisconnected(state)

(* The history variable: the operation that ran last.  For a tick: whether  *)
(* its loop was live, whether it sampled, the branch it took and the slots *)
(* its snapshots reported connected; for an event: its slot and whether a  *)
(* subscribed handler ran.                                                 *)
Last(op, live, sampled, source, seen, slot, handled) ==
    [op |-> op, live |-> live, sampled |-> sampled, source |-> source,
     seen |-> seen, slot |-> slot, handled |-> handled]

Other == Last("other", FALSE, FALSE, "none", {}, None, FALSE)

(* tick(currentTime) of the callback cb: what it leaves in the store, the  *)
(* refs and the frame queue.  The store's subscribers re-render before any *)
(* other callback runs, so the effect on [controllers] is part of it.  The *)
(* clock read by performance.now() inside the callback is taken to be the  *)
(* frame's timestamp.                                                      *)
tick(cb, currentTime, throws, rnd) ==
    LET loop == pollLoops[cb.loop]
        h0 == [HookState EXCEPT !.scheduled = @ \ {cb}]
        same == [store |-> StoreState, hook |-> h0,
                 lastPollTimeRef |-> lastPollTimeRef,
                 hasControllersRef |-> hasControllersRef]
    IN IF ~loop.isActive
       THEN [same EXCEPT !.hook.pollLoops = collect(@, h0.scheduled)]
                @@ [last |-> Last("tick", FALSE, FALSE, "none", {}, None, FALSE)]
       ELSE
       LET hasControllers == hasControllersRef
           timeSinceLastPoll == currentTime - lastPollTimeRef
       IN IF idleSkip(hasControllers, loop.simulationMode, timeSinceLastPoll)
          THEN [same EXCEPT !.hook = requestAnimationFrame(h0, cb.loop)]
                   @@ [last |-> Last("tick", TRUE, FALSE, "none", {}, None, FALSE)]
          ELSE
          LET virtual == usesVirtualGamepad(loop.simulationMode)
              normalized == LET padsNow == getGamepads(throws)
                            IN [i \in 1..Len(padsNow) |-> Normalized[padsNow[i]]]
              store == IF virtual
                       THEN patchControllers(StoreState,
                                <<getVirtualGamepad(currentTime, rnd)>>, currentTime)
                       ELSE IF Len(normalized) > 0
                       THEN patchControllers(StoreState, normalized, currentTime)
                       ELSE pruneDisconnected(StoreState)
              source == IF virtual THEN "virtual"
                        ELSE IF Len(normalized) > 0 THEN "physical" ELSE "prune"
          IN [store |-> store,
              hook |-> requestAnimationFrame(h0, cb.loop),
              lastPollTimeRef |-> currentTime,
              hasControllersRef |-> hasControllersEffect(store.controllers),
              last |-> Last("tick", TRUE, TRUE, source,
                            IF virtual THEN {0}
                            ELSE {normalized[i].slot : i \in {j \in DOMAIN normalized :
                                                              normalized[j].connected}},
                            None, FALSE)]

(***************************************************************************)
(* The state after construction: the stores as created, nothing mounted.   *)
(***************************************************************************)
NoCall == [fn |-> "none"]
NoResult == [fn |-> "none"]

InitPoller ==
    /\ controllers = <<>>
    /\ activeSlot = None
    /\ lastUpdate = None
    /\ pads = <<>>
    /\ mounted = FALSE
    /\ pollLoops = <<>>
    /\ scheduled = {}
    /\ rafCount = 0
    /\ rafIdRef = None
    /\ lastPollTimeRef = 0
    /\ hasControllersRef = FALSE
    /\ listening = FALSE
    /\ now = 0
    /\ envSteps = 0
    /\ last = Other

Init ==
    /\ InitPoller
    /\ simulationMode \in BOOLEAN
    /\ apiSupported \in BOOLEAN
    /\ call = NoCall
    /\ result = NoResult

SetStore(s) ==
    /\ controllers' = s.controllers
    /\ activeSlot' = s.activeSlot
    /\ lastUpdate' = s.lastUpdate

SetHook(h) ==
    /\ pollLoops' = h.pollLoops
    /\ scheduled' = h.scheduled
    /\ rafIdRef' = h.rafIdRef
    /\ rafCount' = h.rafCount

\* the component mounts: fresh refs, then its three effects in order
Mount ==
    /\ ~mounted
    /\ rafCount < MaxRaf
    /\ mounted' = TRUE
    /\ lastPollTimeRef' = 0
    /\ hasControllersRef' = hasControllersEffect(controllers)
    /\ SetHook(startPolling([HookState EXCEPT !.rafIdRef = None], simulationMode))
    /\ listening' = subscribes(simulationMode)
    /\ last' = Other
    /\ UNCHANGED <<controllers, activeSlot, lastUpdate, simulationMode, apiSupported,
                   pads, now, envSteps, call, result>>

\* the component unmounts: the cleanups of its effects; its refs are dropped
Unmount ==
    /\ mounted
    /\ mounted' = FALSE
    /\ SetHook([stopPolling(HookState, liveLoop) EXCEPT !.rafIdRef = None])
    /\ lastPollTimeRef' = 0
    /\ hasControllersRef' = FALSE
    /\ listening' = FALSE
    /\ last' = Other
    /\ UNCHANGED <<controllers, activeSlot, lastUpdate, simulationMode, apiSupported,
                   pads, now, envSteps, call, result>>

(* toggleSimulation, from the settings switch.  The click's re-render runs *)
(* the cleanups and the bodies of the two effects that depend on           *)
(* simulationMode before any other callback.                               *)
ToggleSimulation ==
    /\ mounted => rafCount < MaxRaf
    /\ simulationMode' = ~simulationMode
    /\ IF mounted
       THEN /\ SetHook(startPolling(stopPolling(HookState, liveLoop), ~simulationMode))
            /\ listening' = subscribes(~simulationMode)
       ELSE UNCHANGED <<pollLoops, scheduled, rafIdRef, rafCount, listening>>
    /\ last' = Other
    /\ UNCHANGED <<controllers, activeSlot, lastUpdate, apiSupported, pads, mounted,
                   lastPollTimeRef, hasControllersRef, now, envSteps, call, result>>

\* the outcomes a tick can observe: of navigator.getGamepads() when it is called,
\* of Math.random() when the virtual gamepad is generated
QueryOutcomes(cb) ==
    IF pollLoops[cb.loop].isActive /\ ~usesVirtualGamepad(pollLoops[cb.loop].simulationMode)
    THEN BOOLEAN ELSE {FALSE}

RandomOutcomes(cb) ==
    IF pollLoops[cb.loop].isActive /\ usesVirtualGamepad(pollLoops[cb.loop].simulationMode)
    THEN RandomDraws ELSE {<<0, 0, 0, 0, 0>>}

\* the browser runs a requested frame callback
Tick ==
    \E cb \in scheduled, delta \in FrameDeltas :
    \E throws \in QueryOutcomes(cb), rnd \in RandomOutcomes(cb) :
        LET r == tick(cb, now + delta, throws, rnd) IN
        /\ r.hook.rafCount <= MaxRaf
        /\ now' = now + delta
        /\ SetStore(r.store)
        /\ SetHook(r.hook)
        /\ lastPollTimeRef' = r.lastPollTimeRef
        /\ hasControllersRef' = r.hasControllersRef
        /\ last' = r.last
        /\ UNCHANGED <<simulationMode, apiSupported, pads, mounted, listening, envSteps, call, result>>

(* The platform's list of gamepads changes with no event delivered (yet):  *)
(* a device appears in a slot (free, or left by another device since the   *)
(* program last looked), or a listed device's connected flag changes.      *)
PadsChange ==
    \E s \in Slots : \E g \in Snapshots(s) :
        /\ apiSupported
        /\ envSteps < MaxEnv
        /\ envSteps' = envSteps + 1
        /\ IF s \in DOMAIN pads /\ pads[s].id = g.id
           THEN g # pads[s]
           ELSE g.connected
        /\ pads' = Put(pads, s, g)
        /\ last' = Other
        /\ UNCHANGED <<controllers, activeSlot, lastUpdate, simulationMode, apiSupported,
                       mounted, pollLoops, scheduled, rafCount, rafIdRef, lastPollTimeRef,
                       hasControllersRef, listening, now, call, result>>

\* a listed device leaves the platform's list (its slot reads null)
PadsVanish ==
    \E s \in DOMAIN pads :
        /\ envSteps < MaxEnv
        /\ envSteps' = envSteps + 1
        /\ pads' = [x \in DOMAIN pads \ {s} |-> pads[x]]
        /\ last' = Other
        /\ UNCHANGED <<controllers, activeSlot, lastUpdate, simulationMode, apiSupported,
                       mounted, pollLoops, scheduled, rafCount, rafIdRef, lastPollTimeRef,
                       hasControllersRef, listening, now, call, result>>

\* the platform fires gamepadconnected with event.gamepad = g, which it lists
ConnectEvent ==
    \E s \in Slots, d \in Devices :
        LET g == Gamepad(d, s, TRUE) IN
        /\ apiSupported
        /\ envSteps < MaxEnv
        /\ envSteps' = envSteps + 1
        /\ s \in DOMAIN pads => pads[s].id = d.id
        /\ pads' = Put(pads, s, g)
        /\ IF listening
           THEN LET store == handleConnect(StoreState, g, now) IN
                /\ SetStore(store)
                /\ hasControllersRef' = hasControllersEffect(store.controllers)
           ELSE UNCHANGED <<controllers, activeSlot, lastUpdate, hasControllersRef>>
        /\ last' = Last("connect", FALSE, FALSE, "none", {}, Some(s), listening)
        /\ UNCHANGED <<simulationMode, apiSupported, mounted, pollLoops, scheduled,
                       rafCount, rafIdRef, lastPollTimeRef, listening, now, call, result>>

\* the gamepad of slot s leaves and the platform fires gamepaddisconnected
DisconnectEvent ==
    \E s \in Slots :
        /\ apiSupported
        /\ envSteps < MaxEnv
        /\ envSteps' = envSteps + 1
        /\ s \in DOMAIN pads
        /\ pads' = [x \in DOMAIN pads \ {s} |-> pads[x]]
        /\ IF listening
           THEN LET store == handleDisconnect(StoreState) IN
                /\ SetStore(store)
                /\ hasControllersRef' = hasControllersEffect(store.controllers)
           ELSE UNCHANGED <<controllers, activeSlot, lastUpdate, hasControllersRef>>
        /\ last' = Last("disconnect", FALSE, FALSE, "none", {}, Some(s), listening)
        /\ UNCHANGED <<simulationMode, apiSupported, mounted, pollLoops, scheduled,
                       rafCount, rafIdRef, lastPollTimeRef, listening, now, call, result>>

Next ==
    \/ Mount
    \/ Unmount
    \/ ToggleSimulation
    \/ Tick
    \/ PadsChange
    \/ PadsVanish
    \/ ConnectEvent
    \/ DisconnectEvent

Spec == Init /\ [][Next]_vars

(***************************************************************************)
(* Specifications of the pure functions: Init draws a call from a bounded  *)
(* set of arguments, the one action applies the function.                  *)
(***************************************************************************)
toUpperCase(s) == [i \in 1..Len(s) |-> toUpperChar(s[i])]

\* every second letter in upper case
mixedCase(s) == [i \in 1..Len(s) |-> IF i % 2 = 1 THEN toUpperChar(s[i]) ELSE s[i]]

Keywords == {kwXbox, kwMicrosoft, kwXinput, kwDualshock, kwPlaystation,
             kwWirelessController, kwDualsense, kwNintendo, kwSwitch, kwProController}

Fillers == {<<" ">>, <<"8","B","i","t","D","o">>, <<"x","b","o">>,
            <<"c","o","n","t","r","o","l","l","e","r">>}

Tokens == Keywords \cup {toUpperCase(k) : k \in Keywords}
                   \cup {mixedCase(k) : k \in Keywords} \cup Fillers

RECURSIVE Concatenations(_)
Concatenations(n) ==
    IF n = 0 THEN {<<>>}
    ELSE LET shorter == Concatenations(n - 1)
         IN shorter \cup {s \o t : s \in shorter, t \in Tokens}

TestIds == Concatenations(MaxParts)

InitVendor ==
    /\ InitPoller
    /\ simulationMode = FALSE
    /\ apiSupported = TRUE
    /\ call \in {[fn |-> "detectVendor", arg |-> id] : id \in TestIds}
    /\ result = NoResult

DetectVendorCall ==
    /\ call.fn = "detectVendor"
    /\ result = NoResult
    /\ result' = [fn |-> "detectVendor", value |-> detectVendor(call.arg)]
    /\ UNCHANGED <<pollerVars, call>>

NextVendor == DetectVendorCall

SpecVendor == InitVendor /\ [][NextVendor]_vars

\* raw snapshots with n buttons and m axes
WirelessControllerId == <<"W","i","r","e","l","e","s","s"," ","C","o","n","t","r","o","l","l","e","r">>
ProControllerId == <<"P","r","o"," ","C","o","n","t","r","o","l","l","e","r">>

TestGamepad(id, n, m, actuator) ==
    [id |-> id, index |-> 0, mapping |-> "standard", connected |-> TRUE, timestamp |-> 123,
     buttons |-> [i \in 1..n |-> [pressed |-> i % 2 = 1, value |-> (i * 1234) % 10000]],
     axes |-> [i \in 1..m |-> 2468 * i - 10000],
     vibrationActuator |-> actuator]

TestGamepads ==
    {TestGamepad(id, n, m, IF n % 2 = 0 THEN DualRumble ELSE NoActuator) :
        id \in {XboxId, WirelessControllerId, ProControllerId, UnknownId},
        n \in 0..MaxButtons, m \in 0..MaxAxes}

InitNormalize ==
    /\ InitPoller
    /\ simulationMode = FALSE
    /\ apiSupported = TRUE
    /\ call \in {[fn |-> "normalizeGamepad", arg |-> g] : g \in TestGamepads}
    /\ result = NoResult

NormalizeCall ==
    /\ call.fn = "normalizeGamepad"
    /\ result = NoResult
    /\ result' = [fn |-> "normalizeGamepad", value |-> normalizeGamepad(call.arg)]
    /\ UNCHANGED <<pollerVars, call>>

NextNormalize == NormalizeCall

SpecNormalize == InitNormalize /\ [][NextNormalize]_vars

(***************************************************************************)
(* Properties of the poller and the registry (specification Spec).         *)
(***************************************************************************)
Registered == DOMAIN controllers

\* a step that runs a frame callback (the only steps that advance the clock)
TickStep == now' # now

\* C1: with simulation mode off, after every poll cycle the set of slots held
\* in the registry equals the set of slots that some snapshot of that cycle
\* reported as connected.
C1_RegistryIsConnectedSlots ==
    (last.op = "tick" /\ last.sampled /\ last.source # "virtual" /\ ~simulationMode)
        => Registered = last.seen

\* C2: when the platform fires a disconnect event for slot s while the poller
\* is subscribed, the registry holds no entry for s right after the handler.
C2_DisconnectRemovesSlot ==
    (last.op = "disconnect" /\ last.handled) => ValueOf(last.slot) \notin Registered

\* a sample, with simulation mode off, whose snapshots report no connected
\* device, the platform listing no device at all
ZeroSample ==
    /\ last.op = "tick"
    /\ last.sampled
    /\ last.source # "virtual"
    /\ last.seen = {}
    /\ DOMAIN pads = {}
    /\ ~simulationMode

\* C3: after a poll cycle that yields zero connected devices with simulation
\* mode off the poller is Idle: the next tick takes no sample unless at least
\* IDLE_POLL_INTERVAL_MS have passed since that cycle.
C3_IdleAfterZeroSample ==
    [][(ZeroSample /\ TickStep /\ last'.sampled)
          => now' - now >= IDLE_POLL_INTERVAL_MS]_vars

\* the tick of this step requested the next frame and stored its handle
FrameRequested ==
    /\ rafCount' = rafCount + 1
    /\ rafIdRef' = Some(rafCount')
    /\ \E cb \in scheduled' : cb.id = rafCount' /\ pollLoops'[cb.loop].isActive

\* C4: a tick of a live loop samples if and only if the loop is Active (it
\* sees a non-empty registry, or simulation mode is on) or at least
\* IDLE_POLL_INTERVAL_MS have passed since the last sample; a sample records
\* its time; a skipped tick changes neither the registry nor the last sample
\* time; either way the next frame is requested.
C4_SampleIffActiveOrDue ==
    [][(TickStep /\ last'.live) =>
          /\ last'.sampled <=> \/ hasControllersRef
                               \/ simulationMode
                               \/ now' - lastPollTimeRef >= IDLE_POLL_INTERVAL_MS
          /\ last'.sampled <=> lastPollTimeRef' = now'
          /\ ~last'.sampled => /\ controllers' = controllers
                               /\ activeSlot' = activeSlot
                               /\ lastPollTimeRef' = lastPollTimeRef
          /\ FrameRequested]_vars

\* C4 witness: a tick was skipped after the idle loop had taken a sample
C4_Witness ==
    /\ last.op = "tick"
    /\ last.live
    /\ ~last.sampled
    /\ lastPollTimeRef >= IDLE_POLL_INTERVAL_MS
    /\ ~hasControllersRef

\* C5: once a polling effect is torn down (unmount, or restart on a change of
\* simulation mode) no frame callback of its loop is left scheduled, so no
\* tick of it runs again; an unmounted poller has no scheduled callback.
C5_NoFrameAfterTeardown ==
    /\ \A cb \in scheduled : cb.loop \in DOMAIN pollLoops /\ pollLoops[cb.loop].isActive
    /\ ~mounted => scheduled = {}
    /\ last.op = "tick" => last.live

\* C5 witness: the poller was torn down after ticks had run
C5_Witness ==
    /\ ~mounted
    /\ now > 0
    /\ rafCount >= 2
    /\ scheduled = {}

\* C6 as stated: after a connect event for a device while the poller is
\* mounted, the registry entry of the device's slot is its normalization, in
\* every poller state (simulation mode on included).
C6_ConnectPublishesAlways ==
    (last.op = "connect" /\ mounted) =>
        /\ ValueOf(last.slot) \in Registered
        /\ controllers[ValueOf(last.slot)] = normalizeGamepad(pads[ValueOf(last.slot)])

\* C6 amended: a connect event for a device while the poller is mounted with
\* simulation mode off leaves the normalization of the device in the registry
\* entry of its slot, whatever the polling cadence; while simulation mode is on
\* (or nothing is mounted) the event leaves the registry unchanged.
C6_ConnectPublishesWhenSubscribed ==
    [][(envSteps' # envSteps /\ last'.op = "connect") =>
          IF mounted /\ ~simulationMode
          THEN /\ ValueOf(last'.slot) \in DOMAIN controllers'
               /\ controllers'[ValueOf(last'.slot)]
                      = normalizeGamepad(pads'[ValueOf(last'.slot)])
               /\ hasControllersRef'
          ELSE controllers' = controllers /\ activeSlot' = activeSlot]_vars

\* C6 witness: a connect event was handled while the idle loop was throttled
C6_Witness ==
    /\ last.op = "connect"
    /\ last.handled
    /\ now > lastPollTimeRef
    /\ now - lastPollTimeRef < IDLE_POLL_INTERVAL_MS
    /\ ValueOf(last.slot) \in Registered

\* C7 as stated: a sample publishes the virtual gamepad if and only if
\* simulation mode is on.
C7_VirtualIffSimulation ==
    (last.op = "tick" /\ last.sampled) => (last.source = "virtual" <=> simulationMode)

\* C7 amended: a sample publishes the virtual gamepad if and only if simulation
\* mode is on or the platform has no gamepad capability; what it publishes is
\* the virtual gamepad of the sample's time in slot 0.
C7_VirtualIffSimulationOrNoApi ==
    (last.op = "tick" /\ last.sampled) =>
        /\ last.source = "virtual" <=> (simulationMode \/ ~apiSupported)
        /\ last.source = "virtual" =>
              /\ 0 \in Registered
              /\ controllers[0].id = VirtualId
              /\ controllers[0].timestamp = now
        /\ last.source # "virtual" =>
              \A s \in Registered :
                  controllers[s].id = VirtualId => controllers[s].timestamp < now

\* C7 witness: with simulation mode off and no gamepad capability a sample
\* published the virtual gamepad
C7_Witness ==
    /\ last.op = "tick"
    /\ last.sampled
    /\ ~simulationMode
    /\ ~apiSupported
    /\ 0 \in Registered
    /\ controllers[0].id = VirtualId

(***************************************************************************)
(* Properties of detectVendor (specification SpecVendor).                  *)
(***************************************************************************)
\* the keyword groups in priority order
KeywordGroups ==
    <<[vendor |-> "xbox", keywords |-> {kwXbox, kwMicrosoft, kwXinput}],
      [vendor |-> "dualshock",
       keywords |-> {kwDualshock, kwPlaystation, kwWirelessController, kwDualsense}],
      [vendor |-> "switch", keywords |-> {kwNintendo, kwSwitch, kwProController}]>>

\* the (lower-case) keyword k occurs in s at some position, letter case ignored
OccursIgnoringCase(k, s) ==
    \E i \in 1..(Len(s) - Len(k) + 1) :
        \A j \in 1..Len(k) : s[i + j - 1] \in {k[j], toUpperChar(k[j])}

GroupOccurs(n, s) == \E k \in KeywordGroups[n].keywords : OccursIgnoringCase(k, s)

FirstGroupVendor(s) ==
    IF \E n \in DOMAIN KeywordGroups : GroupOccurs(n, s)
    THEN KeywordGroups[CHOOSE n \in DOMAIN KeywordGroups :
                          /\ GroupOccurs(n, s)
                          /\ \A m \in 1..(n - 1) : ~GroupOccurs(m, s)].vendor
    ELSE "generic"

\* C8: detectVendor returns exactly one vendor for every identifier: the vendor
\* of the first keyword group, in the order xbox > dualshock > switch, one of
\* whose keywords occurs in it ignoring case; generic when none occurs.
C8_FirstMatchingGroupWins ==
    result.fn = "detectVendor" =>
        /\ result.value \in ControllerVendor
        /\ result.value = FirstGroupVendor(call.arg)
        /\ call.arg = <<>> => result.value = "generic"

\* C8 witness: an identifier with an xbox keyword and 'wireless controller'
C8_Witness ==
    /\ result.fn = "detectVendor"
    /\ GroupOccurs(1, call.arg)
    /\ OccursIgnoringCase(kwWirelessController, call.arg)
    /\ result.value = "xbox"

\* C9 as stated: for every keyword k of vendor v and every identifier that
\* contains k in any letter case, detectVendor returns v.
C9_KeywordGivesItsVendor ==
    result.fn = "detectVendor" =>
        \A n \in DOMAIN KeywordGroups : \A k \in KeywordGroups[n].keywords :
            OccursIgnoringCase(k, call.arg) => result.value = KeywordGroups[n].vendor

\* C9 amended: for every keyword k of vendor v and every identifier that
\* contains k in any letter case and no keyword of a group of higher priority,
\* detectVendor returns v.
C9_KeywordGivesItsVendorUnlessPreceded ==
    result.fn = "detectVendor" =>
        \A n \in DOMAIN KeywordGroups : \A k \in KeywordGroups[n].keywords :
            (OccursIgnoringCase(k, call.arg) /\ \A m \in 1..(n - 1) : ~GroupOccurs(m, call.arg))
                => result.value = KeywordGroups[n].vendor

\* C9 witness: a switch keyword written with upper-case letters, preceded by
\* no keyword of another group
C9_Witness ==
    /\ result.fn = "detectVendor"
    /\ GroupOccurs(3, call.arg)
    /\ ~GroupOccurs(1, call.arg)
    /\ ~GroupOccurs(2, call.arg)
    /\ call.arg # toLowerCase(call.arg)
    /\ result.value = "switch"

(***************************************************************************)
(* Properties of normalizeGamepad (specification SpecNormalize).           *)
(***************************************************************************)
\* C10: the label of button index i is the entry i of the vendor's table for
\* i in 0..16 (xbox 0 is 'A', dualshock 0 is 'Cross', generic i is
\* 'Button i+1') and 'Button i+1' for i >= 17; axis indices 0..3 are LX, LY,
\* RX, RY and axis index i >= 4 is 'Axis i+1'; no label is empty.
C10_LabelsFollowTables ==
    result.fn = "normalizeGamepad" =>
        LET out == result.value
            v == out.vendor
        IN /\ v \in ControllerVendor
           /\ \A n \in DOMAIN out.buttons :
                LET b == out.buttons[n] IN
                /\ b.index = n - 1
                /\ b.index <= 16 => b.label = BUTTON_LABELS[v][b.index + 1]
                /\ b.index >= 17 => b.label = "Button " \o ToString(b.index + 1)
                /\ (v = "xbox" /\ b.index = 0) => b.label = "A"
                /\ (v = "dualshock" /\ b.index = 0) => b.label = "Cross"
                /\ v = "generic" => b.label = "Button " \o ToString(b.index + 1)
                /\ b.label # ""
           /\ \A n \in DOMAIN out.axes :
                LET a == out.axes[n] IN
                /\ a.index = n - 1
                /\ a.index = 0 => a.label = "LX"
                /\ a.index = 1 => a.label = "LY"
                /\ a.index = 2 => a.label = "RX"
                /\ a.index = 3 => a.label = "RY"
                /\ a.index >= 4 => a.label = "Axis " \o ToString(a.index + 1)
                /\ a.label # ""

\* C10 witness: a dualshock snapshot with buttons beyond index 16 and an axis
\* beyond index 3 was normalized
C10_Witness ==
    /\ result.fn = "normalizeGamepad"
    /\ result.value.vendor = "dualshock"
    /\ Len(result.value.buttons) >= 18
    /\ result.value.buttons[18].label = "Button 18"
    /\ Len(result.value.axes) >= 5

(***************************************************************************)
(* normalizeGamepad on a raw snapshot some of whose fields are missing.    *)
(* Such a snapshot is a record [id, index, mapping, connected, timestamp,  *)
(* buttons, axes, vibrationActuator] whose id, buttons and axes, each      *)
(* button's value and each axis are optional values (None: undefined).     *)
(* Reading a property of undefined raises a TypeError:                     *)
(* gamepadId.toLowerCase() in detectVendor, gamepad.buttons.map,           *)
(* button.value.toFixed, gamepad.axes.map and value.toFixed.               *)
(***************************************************************************)
throwsTypeError(gamepad) ==
    \/ gamepad.id = None
    \/ gamepad.buttons = None
    \/ \E i \in DOMAIN ValueOf(gamepad.buttons) : ValueOf(gamepad.buttons)[i].value = None
    \/ gamepad.axes = None
    \/ \E i \in DOMAIN ValueOf(gamepad.axes) : ValueOf(gamepad.axes)[i] = None

\* the snapshot with the values of its (present) optional fields
presentFields(gamepad) ==
    [id |-> ValueOf(gamepad.id), index |-> gamepad.index, mapping |-> gamepad.mapping,
     connected |-> gamepad.connected, timestamp |-> gamepad.timestamp,
     buttons |-> [i \in DOMAIN ValueOf(gamepad.buttons) |->
                     [pressed |-> ValueOf(gamepad.buttons)[i].pressed,
                      value |-> ValueOf(ValueOf(gamepad.buttons)[i].value)]],
     axes |-> [i \in DOMAIN ValueOf(gamepad.axes) |-> ValueOf(ValueOf(gamepad.axes)[i])],
     vibrationActuator |-> gamepad.vibrationActuator]

\* the outcome of normalizeGamepad(gamepad): a fault raised, or a value returned
normalizeGamepadOutcome(gamepad) ==
    IF throwsTypeError(gamepad)
    THEN [threw |-> TRUE, value |-> None]
    ELSE [threw |-> FALSE, value |-> Some(normalizeGamepad(presentFields(gamepad)))]

MalformedButtons ==
    {None, Some(<<>>),
     Some(<<[pressed |-> TRUE, value |-> Some(5004)]>>),
     Some(<<[pressed |-> FALSE, value |-> None]>>),
     Some(<<[pressed |-> TRUE, value |-> Some(10000)], [pressed |-> FALSE, value |-> None]>>)}

MalformedAxes == {None, Some(<<>>), Some(<<Some(-5004)>>), Some(<<Some(0), None>>)}

MalformedGamepads ==
    {[id |-> id, index |-> 0, mapping |-> "standard", connected |-> TRUE,
      timestamp |-> 123, buttons |-> b, axes |-> a, vibrationActuator |-> v] :
        id \in {None, Some(XboxId), Some(UnknownId)},
        b \in MalformedButtons, a \in MalformedAxes, v \in {NoActuator, DualRumble}}

InitMalformed ==
    /\ InitPoller
    /\ simulationMode = FALSE
    /\ apiSupported = TRUE
    /\ call \in {[fn |-> "normalizeGamepad", arg |-> g] : g \in MalformedGamepads}
    /\ result = NoResult

NormalizeMalformedCall ==
    /\ call.fn = "normalizeGamepad"
    /\ result = NoResult
    /\ result' = [fn |-> "normalizeGamepad", outcome |-> normalizeGamepadOutcome(call.arg)]
    /\ UNCHANGED <<pollerVars, call>>

NextMalformed == NormalizeMalformedCall

SpecMalformed == InitMalformed /\ [][NextMalformed]_vars

(***************************************************************************)
(* gamepadService: haptics.  An async operation runs to its first await    *)
(* when called and is resumed when the platform settles the awaited        *)
(* promise.  A started operation is                                        *)
(*   [returned, request]: the value it returned without awaiting (None     *)
(*   while it awaits) and the platform request it issued (None if none).   *)
(* Magnitudes are in units of 1/10, durations in milliseconds.  The        *)
(* promise an operation returns is [settled, value].                       *)
(***************************************************************************)
QUICK_PULSE_DURATION_MS == 150

RUMBLE_INTENSITY_PRESETS ==
    [low |-> [weak |-> 2, strong |-> 1],
     medium |-> [weak |-> 5, strong |-> 4],
     high |-> [weak |-> 10, strong |-> 8]]

\* throws: whether navigator.getGamepads() raises in this call
getGamepadByIndex(index, throws) ==
    IF ~isGamepadApiSupported THEN None
    ELSE IF throws THEN None
    ELSE IF index \in DOMAIN pads THEN Some(pads[index]) ELSE None

Success == [success |-> TRUE, error |-> None]
Failure(message) == [success |-> FALSE, error |-> Some(message)]

\* x ?? 0
orZero(x) == IF x = None THEN 0 ELSE ValueOf(x)

effectParameters_undefaulted(params) ==
    [startDelay |-> params.startDelay,
     duration |-> params.duration,
     weakMagnitude |-> params.weakMagnitude,
     strongMagnitude |-> params.strongMagnitude]

\* the argument of playEffect
effectParameters(params) ==
    [startDelay |-> Some(orZero(params.startDelay)),
     duration |-> params.duration,
     weakMagnitude |-> Some(orZero(params.weakMagnitude)),
     strongMagnitude |-> Some(orZero(params.strongMagnitude))]

\* triggerRumble up to its await
triggerRumble(gamepadIndex, params, throws) ==
    LET gamepad == getGamepadByIndex(gamepadIndex, throws) IN
    IF gamepad = None
    THEN [returned |-> Some(Failure("Gamepad not found")), request |-> None]
    ELSE IF ~ValueOf(gamepad).vibrationActuator.present
    THEN [returned |-> Some(Failure("Haptics not supported on this controller")),
          request |-> None]
    ELSE [returned |-> None,
          request |-> Some([method |-> "playEffect", slot |-> gamepadIndex,
                            type |-> "dual-rumble",
                            params |-> effectParameters(params)])]

triggerPulse(gamepadIndex, intensity, throws) ==
    LET preset == RUMBLE_INTENSITY_PRESETS[intensity] IN
    triggerRumble(gamepadIndex,
                  [startDelay |-> None,
                   duration |-> QUICK_PULSE_DURATION_MS,
                   weakMagnitude |-> Some(preset.weak),
                   strongMagnitude |-> Some(preset.strong)],
                  throws)

\* stopRumble up to its await
stopRumble(gamepadIndex, throws) ==
    LET gamepad == getGamepadByIndex(gamepadIndex, throws) IN
    IF gamepad = None \/ ~ValueOf(gamepad).vibrationActuator.present
    THEN [returned |-> Some(Failure("Gamepad or haptics not available")), request |-> None]
    ELSE [returned |-> None,
          request |-> Some([method |-> "reset", slot |-> gamepadIndex])]

(* How the platform settles playEffect or reset: it resolves, or it        *)
(* rejects (or the call itself throws) with an Error carrying a message or *)
(* with a value that is no Error.                                          *)
Settlements ==
    {[kind |-> "resolved", isError |-> FALSE, message |-> "complete"],
     [kind |-> "resolved", isError |-> FALSE, message |-> "preempted"],
     [kind |-> "rejected", isError |-> TRUE, message |-> "InvalidStateError"],
     [kind |-> "rejected", isError |-> FALSE, message |-> ""],
     [kind |-> "threw", isError |-> TRUE, message |-> "playEffect is not a function"]}

resumed_uncaught(fallback, settlement) ==
    IF settlement.kind = "resolved"
    THEN [settled |-> "fulfilled", value |-> Success]
    ELSE [settled |-> "rejected", value |-> Failure(settlement.message)]

\* the operation after its await: return { success: true }, or the catch block
resumed(fallback, settlement) ==
    IF settlement.kind = "resolved"
    THEN [settled |-> "fulfilled", value |-> Success]
    ELSE [settled |-> "fulfilled",
          value |-> Failure(IF settlement.isError THEN settlement.message ELSE fallback)]

\* error instanceof Error ? error.message : <fallback of the operation>
fallbackMessage(fn) == IF fn = "stopRumble" THEN "Stop rumble failed" ELSE "Rumble failed"

\* the lists of gamepads the platform may hold, and the registry a poller
\* that sampled such a list has left
PadLists ==
    UNION {{[s \in S |-> Gamepad(ds[s], s, TRUE)] : ds \in [S -> Devices]} : S \in SUBSET Slots}

registryOf(list) ==
    IF DOMAIN list = {}
    THEN [controllers |-> <<>>, activeSlot |-> None, lastUpdate |-> None]
    ELSE patchControllers([controllers |-> <<>>, activeSlot |-> None, lastUpdate |-> None],
                          [i \in 1..Cardinality(DOMAIN list) |->
                              Normalized[list[ascending(DOMAIN list)[i]]]],
                          0)

HapticSlots == 0..(MaxSlot + 1)

RumbleParams ==
    [startDelay : {None, Some(50)}, duration : {200},
     weakMagnitude : {None, Some(5)}, strongMagnitude : {None, Some(10)}]

InitHaptics ==
    /\ apiSupported \in BOOLEAN
    /\ pads \in IF apiSupported THEN PadLists ELSE {<<>>}
    /\ controllers = registryOf(pads).controllers
    /\ activeSlot = registryOf(pads).activeSlot
    /\ lastUpdate = registryOf(pads).lastUpdate
    /\ simulationMode = FALSE
    /\ mounted = FALSE
    /\ pollLoops = <<>>
    /\ scheduled = {}
    /\ rafCount = 0
    /\ rafIdRef = None
    /\ lastPollTimeRef = 0
    /\ hasControllersRef = FALSE
    /\ listening = FALSE
    /\ now = 0
    /\ envSteps = 0
    /\ last = Other
    /\ call = NoCall
    /\ result = NoResult

\* an operation is called and runs to its await or its return
Begin(fn, gamepadIndex, input, throws, started) ==
    /\ call = NoCall
    /\ call' = [fn |-> fn, gamepadIndex |-> gamepadIndex, input |-> input,
                throws |-> throws, pads |-> pads, store |-> StoreState,
                started |-> started]
    /\ result' = IF started.returned # None
                 THEN [fn |-> fn, settled |-> "fulfilled",
                       value |-> ValueOf(started.returned), settlement |-> None]
                 ELSE NoResult
    /\ UNCHANGED pollerVars

QueryThrows == IF apiSupported THEN BOOLEAN ELSE {FALSE}

TriggerRumble ==
    \E gamepadIndex \in HapticSlots, params \in RumbleParams, throws \in QueryThrows :
        Begin("triggerRumble", gamepadIndex, params, throws,
              triggerRumble(gamepadIndex, params, throws))

TriggerPulse ==
    \E gamepadIndex \in HapticSlots, intensity \in DOMAIN RUMBLE_INTENSITY_PRESETS,
       throws \in QueryThrows :
        Begin("triggerPulse", gamepadIndex, intensity, throws,
              triggerPulse(gamepadIndex, intensity, throws))

StopRumble ==
    \E gamepadIndex \in HapticSlots, throws \in QueryThrows :
        Begin("stopRumble", gamepadIndex, None, throws, stopRumble(gamepadIndex, throws))

Pending == call # NoCall /\ result = NoResult

\* the platform settles the awaited playEffect or reset; the operation resumes
PlatformSettles ==
    \E settlement \in Settlements :
        /\ Pending
        /\ LET r == resumed(fallbackMessage(call.fn), settlement) IN
           result' = [fn |-> call.fn, settled |-> r.settled, value |-> r.value,
                      settlement |-> Some(settlement)]
        /\ UNCHANGED <<pollerVars, call>>

\* the device the pending operation addresses leaves the platform's list
DeviceLeaves ==
    /\ Pending
    /\ call.gamepadIndex \in DOMAIN pads
    /\ pads' = [x \in DOMAIN pads \ {call.gamepadIndex} |-> pads[x]]
    /\ UNCHANGED <<controllers, activeSlot, lastUpdate, simulationMode, apiSupported,
                   mounted, pollLoops, scheduled, rafCount, rafIdRef, lastPollTimeRef,
                   hasControllersRef, listening, now, envSteps, last, call, result>>

NextHaptics ==
    \/ TriggerRumble
    \/ TriggerPulse
    \/ StopRumble
    \/ PlatformSettles
    \/ DeviceLeaves

SpecHaptics == InitHaptics /\ [][NextHaptics]_vars

(***************************************************************************)
(* preferencesSlice.  The store's state is [simulationMode, reducedMotion, *)
(* deadZone]; a dead zone is an integer in units of 1/100, the argument of *)
(* setDeadZone an integer in units of 1/1000.                              *)
(***************************************************************************)
DEFAULT_DEAD_ZONE == 8
MAX_DEAD_ZONE == 50
MIN_DEAD_ZONE == 0
PREFERENCES_VERSION == 4

\* Math.max(MIN_DEAD_ZONE, value), dropped
clamp_upperOnly(value) ==
    IF value > 10 * MAX_DEAD_ZONE THEN 10 * MAX_DEAD_ZONE ELSE value

\* Math.max(MIN_DEAD_ZONE, Math.min(MAX_DEAD_ZONE, value)), in units of 1/1000
clamp(value) ==
    LET upper == IF value > 10 * MAX_DEAD_ZONE THEN 10 * MAX_DEAD_ZONE ELSE value
    IN IF upper < 10 * MIN_DEAD_ZONE THEN 10 * MIN_DEAD_ZONE ELSE upper

\* Number(x.toFixed(2)) for x in units of 1/1000, in units of 1/100
toFixed2(x) ==
    LET a == IF x < 0 THEN 0 - x ELSE x
        n == (a + 5) \div 10
    IN IF x < 0 THEN 0 - n ELSE n

setDeadZone(state, value) ==
    LET clampedValue == clamp(value)
        roundedValue == toFixed2(clampedValue)
    IN [state EXCEPT !.deadZone = roundedValue]

\* the persist option migrate(persisted, version)
migrate(persisted, version) ==
    IF version < 2
    THEN IF persisted.deadZone < MIN_DEAD_ZONE \/ persisted.deadZone > MAX_DEAD_ZONE
         THEN [persisted EXCEPT !.deadZone = DEFAULT_DEAD_ZONE]
         ELSE persisted
    ELSE persisted

\* the store's state as created; osReducedMotion is getOSReducedMotion()
createdPreferences(osReducedMotion) ==
    [simulationMode |-> FALSE, reducedMotion |-> osReducedMotion,
     deadZone |-> DEFAULT_DEAD_ZONE]

(* Loading the persisted record [state, version]: a record of another      *)
(* version than the store's is migrated; its fields then replace those of  *)
(* the created state.                                                      *)
rehydrate(created, persisted, version) ==
    LET loaded == IF version # PREFERENCES_VERSION
                  THEN migrate(persisted, version) ELSE persisted
    IN [k \in DOMAIN created |-> IF k \in DOMAIN loaded THEN loaded[k] ELSE created[k]]

PersistedRecords ==
    [simulationMode : BOOLEAN, reducedMotion : BOOLEAN,
     deadZone : {-10, 0, 8, 25, 50, 51, 100}]

PersistedVersions == 1..PREFERENCES_VERSION

\* arguments of setDeadZone; none lies half way between two multiples of 0.01
DeadZoneArguments == {-1000, -1, 0, 4, 84, 126, 333, 499, 500, 501, 1000, 12346}

InitPreferences ==
    /\ InitPoller
    /\ simulationMode = FALSE
    /\ apiSupported = TRUE
    /\ call \in {[fn |-> "rehydrate", persisted |-> p, version |-> v] :
                    p \in PersistedRecords, v \in PersistedVersions}
    /\ result = NoResult

\* unchanged by the preferences store's operations other than toggleSimulation
preferencesFrame ==
    <<controllers, activeSlot, lastUpdate, apiSupported, pads, mounted, pollLoops,
      scheduled, rafCount, rafIdRef, lastPollTimeRef, hasControllersRef, listening,
      now, envSteps, last>>

\* the store is created and loads the persisted record
Rehydrate ==
    /\ call.fn = "rehydrate"
    /\ result = NoResult
    /\ LET state == rehydrate(createdPreferences(FALSE), call.persisted, call.version) IN
       /\ result' = [fn |-> "rehydrate", state |-> state]
       /\ simulationMode' = state.simulationMode
    /\ UNCHANGED <<preferencesFrame, call>>

\* the dead-zone slider, or the reset button, calls setDeadZone
SetDeadZone ==
    /\ call.fn = "rehydrate"
    /\ result # NoResult
    /\ \E value \in DeadZoneArguments \cup {10 * result.state.deadZone} :
          result' = [fn |-> "setDeadZone", value |-> value, before |-> result.state,
                     state |-> setDeadZone(result.state, value)]
    /\ UNCHANGED <<preferencesFrame, simulationMode, call>>

NextPreferences ==
    \/ Rehydrate
    \/ SetDeadZone

SpecPreferences == InitPreferences /\ [][NextPreferences]_vars

(***************************************************************************)
(* controllerSlice on its own: pruneDisconnected called on a store holding *)
(* device states that were published connected or disconnected.            *)
(***************************************************************************)
Registries ==
    UNION {{[s \in S |-> Normalized[Gamepad(f[s][1], s, f[s][2])]] :
               f \in [S -> Devices \X BOOLEAN]} : S \in SUBSET Slots}

InitStore ==
    /\ controllers \in Registries
    /\ activeSlot \in {None} \cup {Some(s) : s \in Slots}
    /\ lastUpdate = Some(0)
    /\ pads = <<>>
    /\ simulationMode = FALSE
    /\ apiSupported = TRUE
    /\ mounted = FALSE
    /\ pollLoops = <<>>
    /\ scheduled = {}
    /\ rafCount = 0
    /\ rafIdRef = None
    /\ lastPollTimeRef = 0
    /\ hasControllersRef = FALSE
    /\ listening = FALSE
    /\ now = 0
    /\ envSteps = 0
    /\ last = Other
    /\ call = NoCall
    /\ result = NoResult

PruneDisconnected ==
    /\ result = NoResult
    /\ SetStore(pruneDisconnected(StoreState))
    /\ result' = [fn |-> "pruneDisconnected", before |-> StoreState]
    /\ UNCHANGED <<simulationMode, apiSupported, pads, mounted, pollLoops, scheduled,
                   rafCount, rafIdRef, lastPollTimeRef, hasControllersRef, listening,
                   now, envSteps, last, call>>

NextStore == PruneDisconnected

SpecStore == InitStore /\ [][NextStore]_vars

(***************************************************************************)
(* gamepadMapping.applyDeadZone, in exact arithmetic.  Stick coordinates   *)
(* and thresholds are integers in units of 1/100; the sticks of this model *)
(* are those whose magnitude is such an integer too, so that Math.sqrt is  *)
(* exact.  A result is a fraction [num, den].  For the angle               *)
(* a = Math.atan2(y, x) of a stick of magnitude m > 0, Math.cos(a) = x / m *)
(* and Math.sin(a) = y / m; Math.atan2(0, 0) = 0.                          *)
(***************************************************************************)
One == 100

\* Math.sqrt(n) for a perfect square n
sqrt(n) == CHOOSE m \in 0..(2 * One) : m * m = n

Fraction(num, den) == [num |-> num, den |-> den]

times(a, b) == Fraction(a.num * b.num, a.den * b.den)

cosAtan2(y, x) ==
    IF x = 0 /\ y = 0 THEN Fraction(1, 1) ELSE Fraction(x, sqrt(x * x + y * y))

sinAtan2(y, x) ==
    IF x = 0 /\ y = 0 THEN Fraction(0, 1) ELSE Fraction(y, sqrt(x * x + y * y))

isInDeadZone(x, y, deadZone) ==
    LET magnitude == sqrt(x * x + y * y) IN magnitude < deadZone

scaledMagnitude_unscaled(magnitude, deadZone) == Fraction(magnitude - deadZone, One)

\* (magnitude - deadZone) / (1 - deadZone)
scaledMagnitude(magnitude, deadZone) == Fraction(magnitude - deadZone, One - deadZone)

applyDeadZone(x, y, deadZone) ==
    LET magnitude == sqrt(x * x + y * y) IN
    IF magnitude < deadZone
    THEN [x |-> Fraction(0, 1), y |-> Fraction(0, 1), magnitude |-> Fraction(0, 1)]
    ELSE LET scaled == scaledMagnitude(magnitude, deadZone) IN
         [x |-> times(scaled, cosAtan2(y, x)),
          y |-> times(scaled, sinAtan2(y, x)),
          magnitude |-> scaled]

\* right triangles with integer sides <<a, b, c>>, a <= b
Triples == {<<0, 1, 1>>, <<3, 4, 5>>, <<5, 12, 13>>, <<8, 15, 17>>, <<7, 24, 25>>,
            <<20, 21, 29>>}

\* the sticks <<x, y>> with coordinates in [-1, 1] and an integer magnitude
Sticks ==
    UNION {{<<sx * k * tr[1], sy * k * tr[2]>>, <<sx * k * tr[2], sy * k * tr[1]>>} :
              tr \in Triples, k \in 0..One, sx \in {-1, 1}, sy \in {-1, 1}}
        \cap (((0 - One)..One) \X ((0 - One)..One))

\* dead-zone thresholds in [0, 1)
Thresholds == {0, 8, 25, 35, 49, 50, 75, 99}

InitDeadZone ==
    /\ InitPoller
    /\ simulationMode = FALSE
    /\ apiSupported = TRUE
    /\ call \in {[fn |-> "applyDeadZone", x |-> s[1], y |-> s[2], deadZone |-> t] :
                    s \in Sticks, t \in Thresholds}
    /\ result = NoResult

ApplyDeadZoneCall ==
    /\ call.fn = "applyDeadZone"
    /\ result = NoResult
    /\ result' = [fn |-> "applyDeadZone",
                  value |-> applyDeadZone(call.x, call.y, call.deadZone),
                  inDeadZone |-> isInDeadZone(call.x, call.y, call.deadZone)]
    /\ UNCHANGED <<pollerVars, call>>

NextDeadZone == ApplyDeadZoneCall

SpecDeadZone == InitDeadZone /\ [][NextDeadZone]_vars

(***************************************************************************)
(* virtualGamepad on its own: getVirtualGamepad called twice with one time *)
(* argument, each call drawing its own Math.random() results.              *)
(***************************************************************************)
InitSimulator ==
    /\ InitPoller
    /\ simulationMode = TRUE
    /\ apiSupported = TRUE
    /\ call \in {[fn |-> "getVirtualGamepad", time |-> t, draws |-> <<r1, r2>>] :
                    t \in DOMAIN SineAxes, r1 \in RandomDraws, r2 \in RandomDraws}
    /\ result = NoResult

GetVirtualGamepadTwice ==
    /\ call.fn = "getVirtualGamepad"
    /\ result = NoResult
    /\ result' = [fn |-> "getVirtualGamepad",
                  first |-> getVirtualGamepad(call.time, call.draws[1]),
                  second |-> getVirtualGamepad(call.time, call.draws[2])]
    /\ UNCHANGED <<pollerVars, call>>

NextSimulator == GetVirtualGamepadTwice

SpecSimulator == InitSimulator /\ [][NextSimulator]_vars

(***************************************************************************)
(* Properties of what the registry holds and of normalization.             *)
(***************************************************************************)
\* the labels of a device state are those the resolvers give for its vendor
LabelsResolved(c) ==
    /\ \A n \in DOMAIN c.buttons :
          c.buttons[n].label
              = buttonLabel(getLabelsForVendor(c.vendor), c.buttons[n].index)
    /\ \A n \in DOMAIN c.axes : c.axes[n].label = axisLabel(c.axes[n].index)

\* C11: in every reachable state every device state held in the registry,
\* published from a physical snapshot or from the simulator, carries for each
\* button and axis the label the resolver gives for (its vendor, the index).
C11_RegistryLabelsResolved ==
    \A s \in Registered : LabelsResolved(controllers[s])

\* the absolute value of an integer
Abs(x) == IF x < 0 THEN 0 - x ELSE x

\* C12: normalizeGamepad keeps the raw button and axis counts and their order
\* (reading i has index i and the i-th raw pressed flag), every analog value
\* is the raw value rounded to 3 decimals, within 0.0005 of it, and slot, id,
\* mapping, timestamp and connected are copied unchanged.
C12_NormalizeKeepsShapeAndRounds ==
    result.fn = "normalizeGamepad" =>
        LET raw == call.arg
            out == result.value
        IN /\ Len(out.buttons) = Len(raw.buttons)
           /\ Len(out.axes) = Len(raw.axes)
           /\ \A i \in DOMAIN raw.buttons :
                /\ out.buttons[i].index = i - 1
                /\ out.buttons[i].pressed = raw.buttons[i].pressed
                /\ Abs(10 * out.buttons[i].value - raw.buttons[i].value) <= 5
           /\ \A i \in DOMAIN raw.axes :
                /\ out.axes[i].index = i - 1
                /\ Abs(10 * out.axes[i].value - raw.axes[i]) <= 5
           /\ out.slot = raw.index
           /\ out.id = raw.id
           /\ out.mapping = raw.mapping
           /\ out.timestamp = raw.timestamp
           /\ out.connected = raw.connected

\* C12 witness: a snapshot whose second button's value lies between two
\* multiples of 0.001 and whose first axis is negative was normalized
C12_Witness ==
    /\ result.fn = "normalizeGamepad"
    /\ Len(call.arg.buttons) >= 2
    /\ call.arg.buttons[2].value % 10 > 5
    /\ result.value.buttons[2].value = (call.arg.buttons[2].value \div 10) + 1
    /\ Len(call.arg.axes) >= 1
    /\ call.arg.axes[1] < 0
    /\ result.value.axes[1].value < 0

\* C13: normalizeGamepad raises no fault on a snapshot with missing fields
\* (identifier, button or axis list, a button's analog value, capability
\* handle): it returns a device state, a snapshot without capability handle
\* giving unsupported haptics.
C13_NormalizeNeverThrows ==
    result.fn = "normalizeGamepad" =>
        /\ ~result.outcome.threw
        /\ result.outcome.value # None
        /\ ~call.arg.vibrationActuator.present
              => ~ValueOf(result.outcome.value).haptics.hasRumble

(***************************************************************************)
(* Properties of the haptics operations (specification SpecHaptics).       *)
(***************************************************************************)
\* the device the called operation finds at its slot, if any
FoundAtCall ==
    IF apiSupported /\ ~call.throws /\ call.gamepadIndex \in DOMAIN call.pads
    THEN Some(call.pads[call.gamepadIndex]) ELSE None

\* C14: triggerRumble checks its preconditions in order, issuing no platform
\* request when one fails: no device at the slot (or no gamepad capability)
\* gives failure 'Gamepad not found'; a device without haptics handle gives
\* failure 'Haptics not supported on this controller'; otherwise exactly one
\* dual-rumble playEffect request is issued, a missing start delay or
\* magnitude being 0.
C14_RumblePreconditionsInOrder ==
    call.fn = "triggerRumble" =>
        IF FoundAtCall = None
        THEN /\ call.started.request = None
             /\ result.fn = "triggerRumble"
             /\ result.value = Failure("Gamepad not found")
        ELSE IF ~ValueOf(FoundAtCall).vibrationActuator.present
        THEN /\ call.started.request = None
             /\ result.fn = "triggerRumble"
             /\ result.value = Failure("Haptics not supported on this controller")
        ELSE /\ call.started.returned = None
             /\ call.started.request # None
             /\ LET request == ValueOf(call.started.request) IN
                /\ request.method = "playEffect"
                /\ request.type = "dual-rumble"
                /\ request.slot = call.gamepadIndex
                /\ request.params.duration = call.input.duration
                /\ request.params.startDelay
                      = IF call.input.startDelay = None THEN Some(0)
                        ELSE call.input.startDelay
                /\ request.params.weakMagnitude
                      = IF call.input.weakMagnitude = None THEN Some(0)
                        ELSE call.input.weakMagnitude
                /\ request.params.strongMagnitude
                      = IF call.input.strongMagnitude = None THEN Some(0)
                        ELSE call.input.strongMagnitude

\* C14 witness: triggerRumble without start delay and weak magnitude issued
\* its request and the platform resolved it
C14_Witness ==
    /\ call.fn = "triggerRumble"
    /\ call.input.startDelay = None
    /\ call.input.weakMagnitude = None
    /\ call.started.request # None
    /\ ValueOf(call.started.request).params.startDelay = Some(0)
    /\ result.fn = "triggerRumble"
    /\ result.value.success

\* C15: no haptics operation lets a fault escape: the promise it returns is
\* fulfilled with a result that is success exactly when the platform call
\* resolved and otherwise a failure carrying a reason, whatever the query,
\* the platform call and the device do; the registry is left unchanged.
C15_HapticsNeverReject ==
    /\ call # NoCall => StoreState = call.store
    /\ result # NoResult =>
          /\ result.settled = "fulfilled"
          /\ result.value.success
                <=> (result.settlement # None
                     /\ ValueOf(result.settlement).kind = "resolved")
          /\ result.value.success => result.value.error = None
          /\ ~result.value.success => result.value.error # None

\* C15 witness: the device left while the operation was pending, the platform
\* rejected, and the operation returned a failure
C15_Witness ==
    /\ result # NoResult
    /\ result.settlement # None
    /\ ValueOf(result.settlement).kind = "rejected"
    /\ call.gamepadIndex \notin DOMAIN pads
    /\ call.gamepadIndex \in DOMAIN call.pads
    /\ ~result.value.success
    /\ DOMAIN controllers # {}

(***************************************************************************)
(* Properties of the preferences store (specification SpecPreferences).    *)
(***************************************************************************)
\* C16: preferences loaded from a persisted record of a schema version older
\* than the current one (1, 2 or 3) have a deadZone outside [0, 0.5] reset to
\* the default 0.08; a deadZone inside [0, 0.5] and the two flags are kept.
C16_MigrationResetsOutOfRange ==
    (result.fn = "rehydrate" /\ call.version < PREFERENCES_VERSION) =>
        /\ IF call.persisted.deadZone < 0 \/ call.persisted.deadZone > 50
           THEN result.state.deadZone = 8
           ELSE result.state.deadZone = call.persisted.deadZone
        /\ result.state.simulationMode = call.persisted.simulationMode
        /\ result.state.reducedMotion = call.persisted.reducedMotion

C18_PruneKeepsConnectedEntries ==
    result.fn = "pruneDisconnected" =>
        LET before == result.before
            kept == {s \in DOMAIN before.controllers : before.controllers[s].connected}
        IN /\ Registered = kept
           /\ \A s \in kept : controllers[s] = before.controllers[s]
           /\ activeSlot =
                IF before.activeSlot # None /\ ValueOf(before.activeSlot) \in kept
                THEN before.activeSlot
                ELSE IF kept = {} THEN None
                ELSE Some(CHOOSE s \in kept : \A x \in kept : s <= x)

\* C18 witness: entries {0, 1} with only 0 connected and active slot 1 ended
\* as registry {0} with active slot 0
C18_Witness ==
    /\ result.fn = "pruneDisconnected"
    /\ DOMAIN result.before.controllers = {0, 1}
    /\ result.before.controllers[0].connected
    /\ ~result.before.controllers[1].connected
    /\ result.before.activeSlot = Some(1)
    /\ Registered = {0}
    /\ activeSlot = Some(0)

(***************************************************************************)
(* Properties of applyDeadZone (specification SpecDeadZone).               *)
(***************************************************************************)
\* the fraction is the number n (an integer)
Is(fraction, n) == fraction.num = n * fraction.den /\ fraction.den # 0

\* C19: with m = sqrt(x^2 + y^2), applyDeadZone(x, y, t) returns (0, 0) with
\* magnitude 0 whenever m < t, and otherwise magnitude (m - t) / (1 - t) in the
\* input's direction; so m = t gives magnitude 0, m = 1 gives magnitude 1 for
\* every t in [0, 0.5), and applyDeadZone(0, 0, t) is (0, 0, 0) for t > 0.
C19_DeadZoneRescales ==
    result.fn = "applyDeadZone" =>
        LET x == call.x
            y == call.y
            t == call.deadZone
            m == CHOOSE r \in 0..200 : r * r = x * x + y * y
            out == result.value
        IN /\ m < t => Is(out.x, 0) /\ Is(out.y, 0) /\ Is(out.magnitude, 0)
           /\ m >= t =>
                /\ out.magnitude.den # 0 /\ out.x.den # 0 /\ out.y.den # 0
                /\ out.magnitude.num * (100 - t) = (m - t) * out.magnitude.den
                /\ out.x.num * out.magnitude.den * m = out.magnitude.num * x * out.x.den
                /\ out.y.num * out.magnitude.den * m = out.magnitude.num * y * out.y.den
           /\ m = t => Is(out.magnitude, 0)
           /\ (m = 100 /\ t < 50) => Is(out.magnitude, 1)
           /\ (x = 0 /\ y = 0 /\ t > 0) =>
                Is(out.x, 0) /\ Is(out.y, 0) /\ Is(out.magnitude, 0)
           /\ result.inDeadZone <=> m < t

\* C19 witness: a stick of magnitude 1 off the axes, with a threshold inside
\* (0, 0.5), came out with magnitude 1
C19_Witness ==
    /\ result.fn = "applyDeadZone"
    /\ call.x = 28
    /\ call.y = -96
    /\ call.deadZone = 25
    /\ Is(result.value.magnitude, 1)
    /\ result.value.y.num < 0

(***************************************************************************)
(* Properties of the virtual gamepad (specification SpecSimulator).        *)
(***************************************************************************)
\* C20: two invocations of getVirtualGamepad with the same time value return
\* identical device states: the same axis values, pressed flags and analog
\* button values.
C20_SimulatorDeterministic ==
    result.fn = "getVirtualGamepad" =>
        /\ result.first.axes = result.second.axes
        /\ \A i \in DOMAIN result.first.buttons :
              /\ result.first.buttons[i].pressed = result.second.buttons[i].pressed
              /\ result.first.buttons[i].value = result.second.buttons[i].value
        /\ result.first = result.second

(***************************************************************************)
(* gamepadService: the input source on its own.  The window's listeners    *)
(* for the two gamepad events are a set of event types (one subscriber per *)
(* type); a subscriber holds the function its subscription returned:       *)
(* "remove" (it removes the listener) or "noop".  The state of the source  *)
(* is [listeners, held]; held[type] is "none" before the subscription and  *)
(* "called" once the returned function has been called.                    *)
(***************************************************************************)
EventTypes == {"gamepadconnected", "gamepaddisconnected"}

addEventListener(listeners, type) == listeners \cup {type}

removeEventListener_kept(listeners, type) == listeners

removeEventListener(listeners, type) == listeners \ {type}

\* onGamepadConnected / onGamepadDisconnected (type: the event subscribed to)
onGamepadEvent(listeners, type) ==
    IF ~isGamepadApiSupported
    THEN [listeners |-> listeners, returned |-> "noop"]
    ELSE [listeners |-> addEventListener(listeners, type), returned |-> "remove"]

onGamepadConnected(listeners) == onGamepadEvent(listeners, "gamepadconnected")

onGamepadDisconnected(listeners) == onGamepadEvent(listeners, "gamepaddisconnected")

\* the function a subscription returned is called
unsubscribe(listeners, type, returned) ==
    IF returned = "remove" THEN removeEventListener(listeners, type) ELSE listeners

InitInputSource ==
    /\ apiSupported \in BOOLEAN
    /\ pads \in IF apiSupported THEN PadLists ELSE {<<>>}
    /\ controllers = <<>>
    /\ activeSlot = None
    /\ lastUpdate = None
    /\ simulationMode = FALSE
    /\ mounted = FALSE
    /\ pollLoops = <<>>
    /\ scheduled = {}
    /\ rafCount = 0
    /\ rafIdRef = None
    /\ lastPollTimeRef = 0
    /\ hasControllersRef = FALSE
    /\ listening = FALSE
    /\ now = 0
    /\ envSteps = 0
    /\ last = Other
    /\ call = [fn |-> "inputSource", listeners |-> {},
               held |-> [t \in EventTypes |-> "none"]]
    /\ result = NoResult

inputSourceFrame ==
    <<controllers, activeSlot, lastUpdate, simulationMode, apiSupported, pads, mounted,
      pollLoops, scheduled, rafCount, rafIdRef, lastPollTimeRef, hasControllersRef,
      listening, now, last>>

Subscribe ==
    \E type \in EventTypes :
        LET r == IF type = "gamepadconnected"
                 THEN onGamepadConnected(call.listeners)
                 ELSE onGamepadDisconnected(call.listeners)
        IN /\ call.held[type] = "none"
           /\ call' = [call EXCEPT !.listeners = r.listeners, !.held[type] = r.returned]
           /\ result' = [fn |-> "subscribe", type |-> type, before |-> call]
           /\ UNCHANGED <<inputSourceFrame, envSteps>>

Unsubscribe ==
    \E type \in EventTypes :
        /\ call.held[type] \in {"remove", "noop"}
        /\ call' = [call EXCEPT
                      !.listeners = unsubscribe(call.listeners, type, call.held[type]),
                      !.held[type] = "called"]
        /\ result' = [fn |-> "unsubscribe", type |-> type, before |-> call]
        /\ UNCHANGED <<inputSourceFrame, envSteps>>

\* the window dispatches a gamepad event; a registered handler calls the callback
DispatchEvent ==
    \E type \in EventTypes :
        /\ envSteps < MaxEnv
        /\ envSteps' = envSteps + 1
        /\ result' = [fn |-> "event", type |-> type, before |-> call,
                      invoked |-> type \in call.listeners]
        /\ UNCHANGED <<inputSourceFrame, call>>

GetGamepads ==
    \E throws \in QueryThrows :
        /\ result' = [fn |-> "getGamepads", throws |-> throws, before |-> call,
                      value |-> getGamepads(throws)]
        /\ UNCHANGED <<inputSourceFrame, envSteps, call>>

NextInputSource ==
    \/ Subscribe
    \/ Unsubscribe
    \/ DispatchEvent
    \/ GetGamepads

SpecInputSource == InitInputSource /\ [][NextInputSource]_vars

(***************************************************************************)
(* The preferences store with its storage.  localStorage holds under the   *)
(* key 'preferences' nothing (None) or one record [state, version]; a read *)
(* or a write of it may throw (private browsing, quota).  An outcome of a  *)
(* storage operation is [item, returned, raised]: the item stored after    *)
(* it, the value it returned, and whether a fault left it.                 *)
(***************************************************************************)
\* safeLocalStorage.getItem(key, fallback = null)
safeLocalStorage_getItem(item, throws) ==
    IF throws THEN [item |-> item, returned |-> None, raised |-> FALSE]
    ELSE [item |-> item, returned |-> item, raised |-> FALSE]

\* localStorage.setItem outside a try block
safeLocalStorage_setItem_uncaught(item, value, throws) ==
    IF throws THEN [item |-> item, returned |-> FALSE, raised |-> TRUE]
    ELSE [item |-> Some(value), returned |-> TRUE, raised |-> FALSE]

\* safeLocalStorage.setItem(key, value)
safeLocalStorage_setItem(item, value, throws) ==
    IF throws THEN [item |-> item, returned |-> FALSE, raised |-> FALSE]
    ELSE [item |-> Some(value), returned |-> TRUE, raised |-> FALSE]

\* safeStorage.getItem(name)
safeStorage_getItem(item, throws) == safeLocalStorage_getItem(item, throws)

\* safeStorage.setItem(name, value); it returns nothing, wrote keeps what
\* safeLocalStorage.setItem returned
safeStorage_setItem(item, value, throws) ==
    LET r == safeLocalStorage_setItem(item, value, throws)
    IN [item |-> r.item, wrote |-> r.returned, raised |-> r.raised]

\* what the store writes: its state under the store's version
persisted(state) == [state |-> state, version |-> PREFERENCES_VERSION]

(* set(partial) of the persisted store: the in-memory state is replaced,   *)
(* then the state is written to the storage.                               *)
persistSet(state, item, throws) ==
    LET w == safeStorage_setItem(item, persisted(state), throws)
    IN [state |-> state, item |-> w.item, wrote |-> w.wrote, raised |-> w.raised]

toggleSimulation(state) == [state EXCEPT !.simulationMode = ~state.simulationMode]

toggleReducedMotion(state) == [state EXCEPT !.reducedMotion = ~state.reducedMotion]

\* osReducedMotion is getOSReducedMotion()
syncWithOSPreferences(state, osReducedMotion) ==
    [state EXCEPT !.reducedMotion = osReducedMotion]

(* Creation of the store: the created state, then the stored record is     *)
(* read; when there is one it is loaded, and a migrated record is written  *)
(* back.                                                                   *)
hydrate(created, item, readThrows, writeThrows) ==
    LET read == safeStorage_getItem(item, readThrows) IN
    IF read.returned = None
    THEN [state |-> created, item |-> item, wrote |-> FALSE, raised |-> read.raised,
          loaded |-> FALSE]
    ELSE LET record == ValueOf(read.returned)
             state == rehydrate(created, record.state, record.version)
         IN IF record.version # PREFERENCES_VERSION
            THEN [loaded |-> TRUE] @@ persistSet(state, item, writeThrows)
            ELSE [state |-> state, item |-> item, wrote |-> FALSE, raised |-> FALSE,
                  loaded |-> TRUE]

\* arguments of setDeadZone used with the storage
StoredDeadZoneArguments == {-1, 84, 333, 501}

InitPersistence ==
    /\ InitPoller
    /\ simulationMode = FALSE
    /\ apiSupported = TRUE
    /\ call \in {[fn |-> "persistence", item |-> i] :
                    i \in {None} \cup {Some([state |-> p, version |-> v]) :
                                          p \in PersistedRecords, v \in PersistedVersions}}
    /\ result = NoResult

\* the outcome of a store operation: the in-memory state after it, whether
\* the storage threw, what the write returned, whether a fault reached the caller
Outcome(fn, before, r, throws) ==
    [fn |-> fn, before |-> before, state |-> r.state, throws |-> throws,
     wrote |-> r.wrote, raised |-> r.raised]

Hydrate ==
    /\ call.fn = "persistence"
    /\ result = NoResult
    /\ \E readThrows \in BOOLEAN, writeThrows \in BOOLEAN, osReducedMotion \in BOOLEAN :
          LET created == createdPreferences(osReducedMotion)
              r == hydrate(created, call.item, readThrows, writeThrows)
          IN /\ result' = [loaded |-> r.loaded] @@ Outcome("hydrate", created, r, readThrows)
             /\ call' = [call EXCEPT !.item = r.item]
             /\ simulationMode' = r.state.simulationMode
    /\ UNCHANGED preferencesFrame

\* one operation of the hydrated store: the new state goes through set
StoreOperation(fn, state) ==
    \E throws \in BOOLEAN :
        LET r == persistSet(state, call.item, throws)
        IN /\ result' = [loaded |-> result.loaded] @@ Outcome(fn, result.state, r, throws)
           /\ call' = [call EXCEPT !.item = r.item]
           /\ simulationMode' = r.state.simulationMode
           /\ UNCHANGED preferencesFrame

StoreSetDeadZone ==
    /\ call.fn = "persistence"
    /\ result # NoResult
    /\ \E value \in StoredDeadZoneArguments :
          StoreOperation("setDeadZone", setDeadZone(result.state, value))

StoreToggleSimulation ==
    /\ call.fn = "persistence"
    /\ result # NoResult
    /\ StoreOperation("toggleSimulation", toggleSimulation(result.state))

StoreToggleReducedMotion ==
    /\ call.fn = "persistence"
    /\ result # NoResult
    /\ StoreOperation("toggleReducedMotion", toggleReducedMotion(result.state))

StoreSyncWithOSPreferences ==
    /\ call.fn = "persistence"
    /\ result # NoResult
    /\ \E osReducedMotion \in BOOLEAN :
          StoreOperation("syncWithOSPreferences",
                         syncWithOSPreferences(result.state, osReducedMotion))

NextPersistence ==
    \/ Hydrate
    \/ StoreSetDeadZone
    \/ StoreToggleSimulation
    \/ StoreToggleReducedMotion
    \/ StoreSyncWithOSPreferences

SpecPersistence == InitPersistence /\ [][NextPersistence]_vars

(***************************************************************************)
(* The controller store on its own, from its created state: any sequence   *)
(* of patchControllers (with a non-empty list of device states, which may  *)
(* name a slot twice) and pruneDisconnected; setActiveSlot has no caller.  *)
(***************************************************************************)
\* the device states a caller passes: normalized snapshots of a device that
\* is connected or not, and of another connected device
DeviceStates ==
    {Normalized[g] : g \in {x \in UNION {Snapshots(s) : s \in Slots} :
                               x.connected \/ x.id = XboxId}}

PatchLists == {<<c>> : c \in DeviceStates} \cup {<<c, d>> : c \in DeviceStates, d \in DeviceStates}

InitRegistry ==
    /\ InitPoller
    /\ simulationMode = FALSE
    /\ apiSupported = TRUE
    /\ call = NoCall
    /\ result = NoResult

registryFrame ==
    <<simulationMode, apiSupported, pads, mounted, pollLoops, scheduled, rafCount,
      rafIdRef, lastPollTimeRef, hasControllersRef, listening, now, envSteps, last, call>>

PatchRegistry ==
    \E list \in PatchLists :
        /\ SetStore(patchControllers(StoreState, list, now))
        /\ result' = [fn |-> "patchControllers", list |-> list, before |-> StoreState]
        /\ UNCHANGED registryFrame

PruneRegistry ==
    /\ SetStore(pruneDisconnected(StoreState))
    /\ result' = [fn |-> "pruneDisconnected", list |-> <<>>, before |-> StoreState]
    /\ UNCHANGED registryFrame

NextRegistry ==
    \/ PatchRegistry
    \/ PruneRegistry

SpecRegistry == InitRegistry /\ [][NextRegistry]_vars

(***************************************************************************)
(* The poller under fair frame scheduling, with the gamepad capability and *)
(* a component that stays mounted: every requested frame callback is       *)
(* eventually run, and there is no bound on the number of frames.  Two     *)
(* renamings keep the state space finite.  Frame handles are opaque, so    *)
(* the live closure and its pending callback are renamed to handle 1 after *)
(* every step that requests a frame.  The idle check reads only            *)
(* currentTime - lastPollTimeRef, so the clock's origin is moved to the    *)
(* time of each sample (it then reads 0); the virtual gamepad is sampled   *)
(* only with the clock at 0 before the frame, since simulation mode, once  *)
(* off, stays off here.  Whether navigator.getGamepads() throws is a state *)
(* of the platform (call.throws) that changes with the platform's budget.  *)
(***************************************************************************)
\* the time between two frames under fair scheduling: half the idle interval
\* (two frames make a sample due exactly) or the whole of it
FairFrameDeltas == {IDLE_POLL_INTERVAL_MS \div 2, IDLE_POLL_INTERVAL_MS}

\* the hook's state with its only closure and its only callback renamed to 1
renamed(h) ==
    LET cb == CHOOSE c \in h.scheduled : TRUE IN
    [pollLoops |-> Put(<<>>, 1, h.pollLoops[cb.loop]),
     scheduled |-> {[id |-> 1, loop |-> 1]},
     rafIdRef |-> Some(1),
     rafCount |-> 1]

InitFair ==
    /\ InitPoller
    /\ simulationMode \in BOOLEAN
    /\ apiSupported = TRUE
    /\ call = [fn |-> "platform", throws |-> FALSE]
    /\ result = NoResult

\* the browser runs the requested frame callback delta ms after the last frame
Frame ==
    /\ UNCHANGED <<simulationMode, apiSupported, pads, mounted, listening, envSteps, call>>
    /\ lastPollTimeRef' = 0
    /\ \E cb \in scheduled, delta \in FairFrameDeltas :
          /\ result' = [fn |-> "frame", hasControllers |-> hasControllersRef,
                        timeSinceLastPoll |-> now + delta - lastPollTimeRef,
                        registered |-> Registered]
          /\ \E rnd \in RandomOutcomes(cb) :
             \E r \in {tick(cb, now + delta, call.throws, rnd)} :
                /\ now' = IF r.last.sampled THEN 0 ELSE now + delta
                /\ last' = r.last
                /\ hasControllersRef' = r.hasControllersRef
                /\ SetStore([r.store EXCEPT !.lastUpdate = IF r.last.sampled /\ @ # None
                                                           THEN Some(0) ELSE @])
                /\ SetHook(renamed(r.hook))

\* toggleSimulation while simulation mode is on
SwitchOff ==
    /\ simulationMode
    /\ simulationMode' = FALSE
    /\ IF mounted
       THEN /\ SetHook(renamed(startPolling(stopPolling(HookState, liveLoop), FALSE)))
            /\ listening' = subscribes(FALSE)
       ELSE UNCHANGED <<pollLoops, scheduled, rafIdRef, rafCount, listening>>
    /\ last' = Other
    /\ UNCHANGED <<controllers, activeSlot, lastUpdate, apiSupported, pads, mounted,
                   lastPollTimeRef, hasControllersRef, now, envSteps, call, result>>

\* navigator.getGamepads() starts, or stops, throwing
QueryFaultChanges ==
    /\ envSteps < MaxEnv
    /\ envSteps' = envSteps + 1
    /\ call' = [call EXCEPT !.throws = ~@]
    /\ last' = Other
    /\ UNCHANGED <<controllers, activeSlot, lastUpdate, simulationMode, apiSupported,
                   pads, mounted, pollLoops, scheduled, rafCount, rafIdRef,
                   lastPollTimeRef, hasControllersRef, listening, now, result>>

\* the platform changes its list without firing a gamepad event, so that a
\* device is found by polling alone
NextFair ==
    \/ Mount
    \/ SwitchOff
    \/ Frame
    \/ QueryFaultChanges
    \/ PadsChange
    \/ PadsVanish

\* requestAnimationFrame: a requested callback is run
SpecFair == InitFair /\ [][NextFair]_vars /\ WF_vars(Frame)

(***************************************************************************)
(* Properties of the input source (specification SpecInputSource).         *)
(***************************************************************************)
\* C21: without the gamepad capability getGamepads returns an empty list and
\* a subscription returns a no-op, registers nothing and its callback is
\* never invoked; with it getGamepads returns exactly the non-null snapshots,
\* or an empty list when the query throws; a callback is never invoked after
\* the function its subscription returned has been called.
C21_InputSourceDegrades ==
    /\ result.fn = "getGamepads" =>
          IF ~apiSupported \/ result.throws
          THEN result.value = <<>>
          ELSE /\ Len(result.value) = Cardinality(DOMAIN pads)
               /\ {result.value[i] : i \in DOMAIN result.value}
                     = {pads[s] : s \in DOMAIN pads}
    /\ (result.fn = "subscribe" /\ ~apiSupported) =>
          /\ call.held[result.type] = "noop"
          /\ call.listeners = result.before.listeners
    /\ (result.fn = "unsubscribe" /\ ~apiSupported) =>
          call.listeners = result.before.listeners
    /\ (result.fn = "event" /\ result.invoked) =>
          /\ apiSupported
          /\ call.held[result.type] = "remove"

\* C21 witness: an event was dispatched after the unsubscribe function had
\* been called, and the callback was not invoked
C21_Witness ==
    /\ result.fn = "event"
    /\ apiSupported
    /\ call.held[result.type] = "called"
    /\ ~result.invoked

(***************************************************************************)
(* Properties of the preferences store with its storage                    *)
(* (specification SpecPersistence).                                        *)
(***************************************************************************)
\* C22: a fault of the storage never reaches the caller and never blocks a
\* change of preference: when the read throws the store has its in-memory
\* defaults; when the write throws during setDeadZone, toggleSimulation or
\* toggleReducedMotion the in-memory state still has the new value and the
\* write reports the failure as a value.
C22_StorageFaultsContained ==
    result # NoResult =>
       /\ ~result.raised
       /\ (result.fn = "hydrate" /\ result.throws) =>
             /\ ~result.loaded
             /\ result.state.simulationMode = FALSE
             /\ result.state.deadZone = DEFAULT_DEAD_ZONE
             /\ result.state = result.before
       /\ (result.fn = "toggleSimulation") =>
             result.state = [result.before EXCEPT
                               !.simulationMode = ~result.before.simulationMode]
       /\ (result.fn = "toggleReducedMotion") =>
             result.state = [result.before EXCEPT
                               !.reducedMotion = ~result.before.reducedMotion]
       /\ (result.fn = "setDeadZone") =>
             \E value \in StoredDeadZoneArguments :
                result.state = [result.before EXCEPT
                                  !.deadZone = toFixed2(clamp(value))]
       /\ (result.fn # "hydrate" /\ result.throws) => result.wrote = FALSE
       /\ (result.fn # "hydrate" /\ ~result.throws) =>
             /\ result.wrote = TRUE
             /\ call.item = Some(persisted(result.state))

\* C22 witness: a write threw during setDeadZone and the state changed
C22_Witness ==
    /\ result # NoResult
    /\ result.fn = "setDeadZone"
    /\ result.throws
    /\ result.state # result.before
    /\ call.item # Some(persisted(result.state))

(***************************************************************************)
(* Properties of the poller and the registry (specification Spec).         *)
(***************************************************************************)
\* the step before left a connected device in the registry: a handled connect
\* event, or a sample of the platform's list that saw a connected device
Published ==
    /\ Registered # {}
    /\ \/ last.op = "connect" /\ last.handled
       \/ last.op = "tick" /\ last.sampled /\ last.source = "physical" /\ last.seen # {}

\* C23: the frame callback of the live loop that runs right after a sample or
\* a connect event published a connected device (into an empty registry or
\* not) samples, however little time has passed since the last sample.
C23_ActiveOnNextTick ==
    [][(TickStep /\ last'.live /\ Published) =>
          /\ last'.sampled
          /\ lastPollTimeRef' = now']_vars

\* C23 witness: the first frame, 16 ms after mount, sampled although the loop
\* started Idle: the only event before it, a connect event, had published the
\* only registry entry into the empty registry
C23_Witness ==
    /\ last.op = "tick"
    /\ last.sampled
    /\ last.source = "physical"
    /\ ~simulationMode
    /\ now = 16
    /\ envSteps = 1
    /\ Cardinality(Registered) = 1

\* the slots a step reported: the slot of a handled connect event, the slots of
\* the platform's list for a sample of it that did not fail
Reported ==
    IF last'.op = "connect" /\ last'.handled THEN {ValueOf(last'.slot)}
    ELSE IF last'.op = "tick" /\ last'.sampled /\ last'.source = "physical"
    THEN DOMAIN pads
    ELSE {}

\* detectVendor on the ids that can be in the registry or reported
VendorOf == [id \in {d.id : d \in Devices} \cup {VirtualId} |-> detectVendor(id)]

\* C24: the vendor is never cached: with simulation mode off every registry
\* entry's vendor is detectVendor of the entry's own id; after a connect event
\* or a sample that reports a device in a slot, the slot's entry has that
\* device's id, its vendor and the labels of that vendor, whatever device the
\* slot held before.
C24_VendorFollowsId ==
    /\ [](~simulationMode =>
             \A s \in Registered : controllers[s].vendor = VendorOf[controllers[s].id])
    /\ [][\A s \in Reported :
             /\ s \in Registered'
             /\ controllers'[s].id = pads'[s].id
             /\ controllers'[s].vendor = VendorOf[pads'[s].id]
             /\ LabelsResolved(controllers'[s])]_vars

\* C24 witness: slot 0 held the virtual gamepad (vendor xbox) published by the
\* only frame so far, simulation mode was switched off, and the connect event
\* of an unrecognized device in slot 0 left a generic entry there
C24_Witness ==
    /\ last.op = "connect"
    /\ last.handled
    /\ last.slot = Some(0)
    /\ envSteps = 1
    /\ now = 16
    /\ lastPollTimeRef = 16
    /\ ~simulationMode
    /\ controllers[0].id = UnknownId
    /\ controllers[0].vendor = "generic"

(***************************************************************************)
(* Properties of the controller store (specification SpecRegistry).        *)
(***************************************************************************)
\* the positions of a list that name slot s
Naming(list, s) == {i \in DOMAIN list : list[i].slot = s}

\* the greatest element of a non-empty set of integers
Max(S) == CHOOSE m \in S : \A n \in S : n <= m

\* C25: the registry is a map keyed by slot: the state under key k has slot k;
\* after patchControllers(list) every slot the list names holds the last state
\* the list gives for it, every other slot is as before, and no entry is removed.
C25_RegistryKeyedBySlot ==
    /\ \A k \in Registered : controllers[k].slot = k
    /\ result.fn = "patchControllers" =>
          /\ DOMAIN result.before.controllers \subseteq Registered
          /\ \A s \in Slots :
                IF Naming(result.list, s) # {}
                THEN /\ s \in Registered
                     /\ controllers[s] = result.list[Max(Naming(result.list, s))]
                ELSE /\ s \in Registered <=> s \in DOMAIN result.before.controllers
                     /\ s \in Registered => controllers[s] = result.before.controllers[s]

\* C25 witness: a list gave two different states for a slot already registered
\* and another slot kept its entry
C25_Witness ==
    /\ result.fn = "patchControllers"
    /\ Len(result.list) = 2
    /\ result.list[1].slot = result.list[2].slot
    /\ result.list[1] # result.list[2]
    /\ result.list[1].slot \in DOMAIN result.before.controllers
    /\ \E s \in Registered : Naming(result.list, s) = {}

\* C26: over every sequence of patchControllers with a non-empty list and
\* pruneDisconnected (all that samples and connect and disconnect events do to
\* the store) the active slot is defined exactly when the registry is non-empty,
\* and is then the key of an entry; patchControllers never changes an active
\* slot that is set.
C26_ActiveSlotTracksRegistry ==
    /\ activeSlot # None <=> Registered # {}
    /\ activeSlot # None => ValueOf(activeSlot) \in Registered
    /\ (result.fn = "patchControllers" /\ result.before.activeSlot # None) =>
          activeSlot = result.before.activeSlot

\* C26 witness: a patch whose list starts with another slot left the active
\* slot, set by an earlier patch, as it was
C26_Witness ==
    /\ result.fn = "patchControllers"
    /\ result.before.activeSlot # None
    /\ result.list[1].slot # ValueOf(result.before.activeSlot)
    /\ activeSlot = result.before.activeSlot

(***************************************************************************)
(* Properties of the poller under fair frame scheduling (specification     *)
(* SpecFair).                                                              *)
(***************************************************************************)
\* the registry holds an entry with the virtual gamepad's id
VirtualLingers == \E s \in Registered : controllers[s].id = VirtualId

\* C27: once simulation mode is off in the mounted poller and the platform
\* lists no device, the registry eventually holds no entry with the virtual
\* gamepad's id, unless the platform lists a device first.
C27_VirtualEntryLeaves ==
    (mounted /\ ~simulationMode /\ DOMAIN pads = {})
        ~> (~VirtualLingers \/ DOMAIN pads # {})

\* the platform reports a connected device in slot s to the mounted poller,
\* simulation mode off
ReportsConnected(s) ==
    /\ mounted
    /\ ~simulationMode
    /\ ~call.throws
    /\ s \in DOMAIN pads
    /\ pads[s].connected

\* the registry entry of slot s is the normalization of the platform's snapshot
Detected(s) ==
    /\ s \in Registered
    /\ s \in DOMAIN pads
    /\ controllers[s] = Normalized[pads[s]]

\* C28: if from some point on the platform reports a connected device in slot
\* s to the mounted poller with simulation mode off, then from some point on the
\* registry entry of s is the normalization of that device's snapshot, with or
\* without a connect event and from Idle polling too.
C28_DeviceEventuallyDetected ==
    \A s \in Slots : <>[]ReportsConnected(s) => <>[]Detected(s)

\* C28 witness: a frame of the idle loop, one second after the last sample,
\* found the device the registry did not hold and published it
C28_Witness ==
    /\ result.fn = "frame"
    /\ ~result.hasControllers
    /\ result.registered = {}
    /\ result.timeSinceLastPoll >= IDLE_POLL_INTERVAL_MS
    /\ last.op = "tick"
    /\ last.sampled
    /\ ~simulationMode
    /\ \E s \in last.seen : ReportsConnected(s) /\ Detected(s)

(***************************************************************************)
(* The dead zone held by the preferences store (specification              *)
(* SpecPersistence).                                                       *)
(***************************************************************************)
\* C29: in every state of the preferences store, right after hydration from
\* any persisted record of any schema version and after any sequence of
\* setDeadZone, toggleSimulation, toggleReducedMotion and
\* syncWithOSPreferences, the dead zone lies in [MIN_DEAD_ZONE, MAX_DEAD_ZONE],
\* so that 1 - deadZone is never 0.
C29_DeadZoneInRange ==
    result # NoResult =>
       /\ result.state.deadZone >= MIN_DEAD_ZONE
       /\ result.state.deadZone <= MAX_DEAD_ZONE
       /\ One - result.state.deadZone # 0

(***************************************************************************)
(* The range of the dead-zone filter (specification SpecDeadZone).         *)
(***************************************************************************)
\* C30: for every stick with x and y in [-1, 1], the diagonals of magnitude
\* above 1 included, and every threshold in [0, 0.5], applyDeadZone returns a
\* magnitude in [0, 1] and components in [-1, 1].
C30_DeadZoneOutputInRange ==
    (result.fn = "applyDeadZone" /\ call.deadZone <= MAX_DEAD_ZONE) =>
        LET out == result.value IN
        /\ out.magnitude.den > 0 /\ out.x.den > 0 /\ out.y.den > 0
        /\ 0 <= out.magnitude.num /\ out.magnitude.num <= out.magnitude.den
        /\ 0 - out.x.den <= out.x.num /\ out.x.num <= out.x.den
        /\ 0 - out.y.den <= out.y.num /\ out.y.num <= out.y.den

====
